---------------------------- MODULE Spec2Model ----------------------------
(***************************************************************************)
(* Authentication and access-control core of the FastAPI template:         *)
(* request-rate admission (app/middleware/rate_limiting.py), password      *)
(* login with the two-factor challenge (app/api/routers/auth.py), the      *)
(* authorization gate (app/api/dependencies/auth.py) and the OAuth         *)
(* account resolution (app/db/utils/user_crud.py).                         *)
(*                                                                         *)
(* Time is in seconds.  Each part of the core has its own specification    *)
(* over the shared variables.                                              *)
(***************************************************************************)
EXTENDS Integers, Sequences, FiniteSets, TLC

VARIABLES
    now,         \* the wall clock (time.time(), datetime.now)
    requests,    \* RateLimitMiddleware.requests: client_ip -> [(timestamp, count)]
    rl,          \* the in-flight HTTP requests seen by the middleware
    users,       \* the users table: id -> row
    next_id,     \* the next primary key the users table hands out
    challenges,  \* the two-factor challenge store: principal id -> challenge
    calls,       \* the Google callbacks in flight: call id -> its position and locals
    resp         \* the response of the last completed operation

vars == <<now, requests, rl, users, next_id, challenges, calls, resp>>

\* No callback is in flight.
NoCalls == <<>>

NULL == "NULL"
\* None where the value is a number: no timestamp, no row.
Never == -1
NoUser == 0

(***************************************************************************)
(* Generic helpers.                                                        *)
(***************************************************************************)
RECURSIVE SumCounts(_)
\* sum(count for _, count in entries)
SumCounts(entries) ==
    IF entries = <<>> THEN 0
    ELSE Head(entries)[2] + SumCounts(Tail(entries))

(***************************************************************************)
(* The users table: app/db/models/user.py, app/db/utils/user_crud.py       *)
(***************************************************************************)
Roles == {"user", "admin", "superadmin"}

\* Number of rows the users table may hold.
MaxUsers == 2
UserIds == 1..MaxUsers
\* Ids a request may name: those of the table and one that is never assigned.
AnyIds == 1..(MaxUsers + 1)

\* The external-identity pair of a principal (spec section 3).  The User class
\* of app/db/models/user.py declares no oauth_provider/oauth_id column; the
\* columns are the ones user_crud.py reads and writes.
ExternalIdentity(provider, provider_id) ==
    [oauth_provider |-> provider, oauth_id |-> provider_id]

\* A row of the users table with the column defaults of the User class.
User(username, email, hashed_password, role) ==
    [username |-> username, email |-> email, hashed_password |-> hashed_password,
     avatar_url |-> NULL, is_active |-> TRUE, role |-> role,
     two_fa_enabled |-> FALSE, email_verified |-> FALSE, last_login_at |-> Never]
    @@ ExternalIdentity(NULL, NULL)

\* hash_password: a salted one-way digest (bcrypt) of the password.
hash_password(password, salt) == <<"bcrypt", salt, password>>

\* hashed_password=None: the row of a federation-only account.
NoPasswordHash == <<"none", NULL, NULL>>

\* bcrypt.checkpw: re-hash the plain password with the salt of the stored
\* digest and compare.
verify_password(plain_password, hashed_password) ==
    hash_password(plain_password, hashed_password[2]) = hashed_password

\* result.scalar_one_or_none(): the id of the matching row, or NoUser for
\* None (the unique columns never give more than one match).
scalar_one_or_none(hits) ==
    IF hits = {} THEN NoUser ELSE CHOOSE i \in hits : TRUE

get_by_email(table, email) ==
    scalar_one_or_none({i \in DOMAIN table : table[i].email = email})

get_by_username(table, username) ==
    scalar_one_or_none({i \in DOMAIN table : table[i].username = username})

\* CRUDBase.get: the row with this primary key, or None.
get(table, id) == IF id \in DOMAIN table THEN id ELSE NoUser

is_active(user) == user.is_active
has_role(user, role) == user.role = role
is_admin(user) == user.role \in {"admin", "superadmin"}
is_superadmin(user) == user.role = "superadmin"

(***************************************************************************)
(* Token Service: app/core/security.py                                     *)
(***************************************************************************)
ACCESS_TOKEN_EXPIRE_MINUTES == 30
REFRESH_TOKEN_EXPIRE_DAYS == 7
SECRET_KEY == "your-secret-key-here-change-in-production"
ALGORITHM == "HS256"

\* str(user.id) and int(user_id)
str(id) == ToString(id)
int(text) == CHOOSE i \in AnyIds : ToString(i) = text

\* jwt.encode: the claims, signed with the key under the algorithm.
jwt_encode(claims, key, algorithm) ==
    [claims |-> claims, key |-> key, alg |-> algorithm, segments |-> 3]

create_access_token(data, current_time) ==
    jwt_encode(data @@ [exp |-> current_time + ACCESS_TOKEN_EXPIRE_MINUTES * 60,
                        type |-> "access"],
               SECRET_KEY, ALGORITHM)

\* create_refresh_token that takes the lifetime of the access token.
create_refresh_token_AccessLifetimeMutant(data, current_time) ==
    jwt_encode(data @@ [exp |-> current_time + ACCESS_TOKEN_EXPIRE_MINUTES * 60,
                        type |-> "refresh"],
               SECRET_KEY, ALGORITHM)

create_refresh_token(data, current_time) ==
    jwt_encode(data @@ [exp |-> current_time + REFRESH_TOKEN_EXPIRE_DAYS * 86400,
                        type |-> "refresh"],
               SECRET_KEY, ALGORITHM)

\* The data the route handlers put into both tokens.
token_data(table, id) ==
    [sub |-> str(id), username |-> table[id].username, role |-> table[id].role]

\* The token pair the handlers return.
Tokens(table, id, current_time) ==
    [access_token  |-> create_access_token(token_data(table, id), current_time),
     refresh_token |-> create_refresh_token(token_data(table, id), current_time),
     token_type    |-> "bearer"]

\* A string that does not split into the three segments of a JWT.
Malformed ==
    [claims |-> [sub |-> NULL, username |-> NULL, role |-> NULL, exp |-> 0, type |-> NULL],
     key |-> NULL, alg |-> NULL, segments |-> 1]

\* jwt.decode raises JWTError for a malformed token, a signature made with
\* another key, an algorithm other than settings.ALGORITHM and an expired
\* "exp"; decode_token turns it into the 401 response.
jwt_valid(token, current_time) ==
    /\ token.segments = 3
    /\ token.key = SECRET_KEY
    /\ token.alg = ALGORITHM
    /\ token.claims.exp >= current_time

\* decode_token that tells an expired token from the other failures.
decode_token_ExpiredDetailMutant(token, current_time) ==
    IF jwt_valid(token, current_time)
    THEN [ok |-> TRUE, payload |-> token.claims]
    ELSE IF token.segments = 3 /\ token.key = SECRET_KEY /\ token.alg = ALGORITHM
    THEN [ok |-> FALSE, status |-> 401, detail |-> "Token has expired",
          headers |-> "WWW-Authenticate: Bearer"]
    ELSE [ok |-> FALSE, status |-> 401, detail |-> "Could not validate credentials",
          headers |-> "WWW-Authenticate: Bearer"]

decode_token(token, current_time) ==
    IF jwt_valid(token, current_time)
    THEN [ok |-> TRUE, payload |-> token.claims]
    ELSE [ok |-> FALSE, status |-> 401, detail |-> "Could not validate credentials",
          headers |-> "WWW-Authenticate: Bearer"]

(***************************************************************************)
(* Authorization Gate: app/api/dependencies/auth.py                        *)
(***************************************************************************)
\* What a dependency hands to the next one: a user of the table, or the
\* HTTPException that ends the request.
Allowed(id) ==
    [outcome |-> "ok", user_id |-> id, status |-> 200, detail |-> "", headers |-> NULL]
Denied(outcome, status, detail) ==
    [outcome |-> outcome, user_id |-> NoUser, status |-> status, detail |-> detail,
     headers |-> NULL]

get_current_user(token, table, current_time) ==
    LET d == decode_token(token, current_time)
    IN  IF ~d.ok
        THEN [Denied("Unauthenticated", d.status, d.detail) EXCEPT !.headers = d.headers]
        ELSE IF d.payload.sub = NULL
        THEN Denied("Unauthenticated", 401, "Could not validate credentials")
        ELSE IF get(table, int(d.payload.sub)) = NoUser
        THEN Denied("PrincipalNotFound", 404, "User not found")
        ELSE Allowed(get(table, int(d.payload.sub)))

\* get_current_active_user without its is_active check.
get_current_active_user_NoCheckMutant(token, table, current_time) ==
    get_current_user(token, table, current_time)

get_current_active_user(token, table, current_time) ==
    LET cur == get_current_user(token, table, current_time)
    IN  IF cur.outcome # "ok" THEN cur
        ELSE IF ~is_active(table[cur.user_id])
        THEN Denied("InactiveAccount", 400, "Inactive user")
        ELSE cur

get_current_admin_user(token, table, current_time) ==
    LET cur == get_current_active_user(token, table, current_time)
    IN  IF cur.outcome # "ok" THEN cur
        ELSE IF ~is_admin(table[cur.user_id])
        THEN Denied("InsufficientPermission", 403,
                    "Insufficient permissions. Admin role required.")
        ELSE cur

\* get_current_superadmin_user that reads the role from the token's claims.
get_current_superadmin_user_TokenRoleMutant(token, table, current_time) ==
    LET cur == get_current_active_user(token, table, current_time)
    IN  IF cur.outcome # "ok" THEN cur
        ELSE IF decode_token(token, current_time).payload.role # "superadmin"
        THEN Denied("InsufficientPermission", 403,
                    "Insufficient permissions. Superadmin role required.")
        ELSE cur

get_current_superadmin_user(token, table, current_time) ==
    LET cur == get_current_active_user(token, table, current_time)
    IN  IF cur.outcome # "ok" THEN cur
        ELSE IF ~is_superadmin(table[cur.user_id])
        THEN Denied("InsufficientPermission", 403,
                    "Insufficient permissions. Superadmin role required.")
        ELSE cur

\* require_role that lets a superadmin pass every requirement.
require_role_HierarchyMutant(required_role, token, table, current_time) ==
    LET cur == get_current_active_user(token, table, current_time)
    IN  IF cur.outcome # "ok" THEN cur
        ELSE IF ~(has_role(table[cur.user_id], required_role)
                  \/ is_superadmin(table[cur.user_id]))
        THEN Denied("InsufficientPermission", 403,
                    "Insufficient permissions. " \o required_role \o " role required.")
        ELSE cur

\* require_role(required_role): the role_checker it returns.
require_role(required_role, token, table, current_time) ==
    LET cur == get_current_active_user(token, table, current_time)
    IN  IF cur.outcome # "ok" THEN cur
        ELSE IF ~has_role(table[cur.user_id], required_role)
        THEN Denied("InsufficientPermission", 403,
                    "Insufficient permissions. " \o required_role \o " role required.")
        ELSE cur

RECURSIVE join(_, _)
\* sep.join(names)
join(sep, names) ==
    IF names = <<>> THEN ""
    ELSE IF Len(names) = 1 THEN names[1]
    ELSE names[1] \o sep \o join(sep, Tail(names))

\* require_any_role(*roles): the role_checker it returns.
require_any_role(roles, token, table, current_time) ==
    LET cur == get_current_active_user(token, table, current_time)
    IN  IF cur.outcome # "ok" THEN cur
        ELSE IF ~(\E k \in 1..Len(roles) : has_role(table[cur.user_id], roles[k]))
        THEN Denied("InsufficientPermission", 403,
                    "Insufficient permissions. One of these roles required: "
                    \o join(", ", roles))
        ELSE cur

\* The dependencies an operation may declare: the dependency and the
\* roles passed to its factory.
Gates ==
    {[kind |-> "active", roles |-> <<>>],
     [kind |-> "admin", roles |-> <<>>],
     [kind |-> "superadmin", roles |-> <<>>]}
    \cup {[kind |-> "require_role", roles |-> <<r>>] : r \in Roles}
    \cup {[kind |-> "require_any_role", roles |-> rs] :
            rs \in {<<"admin", "superadmin">>, <<"user", "admin">>}}

\* authorize(token, required_roles?): the dependency chain of one operation.
authorize(gate, token, table, current_time) ==
    CASE gate.kind = "active" -> get_current_active_user(token, table, current_time)
      [] gate.kind = "admin" -> get_current_admin_user(token, table, current_time)
      [] gate.kind = "superadmin" -> get_current_superadmin_user(token, table, current_time)
      [] gate.kind = "require_role" ->
            require_role(gate.roles[1], token, table, current_time)
      [] gate.kind = "require_any_role" ->
            require_any_role(gate.roles, token, table, current_time)

(***************************************************************************)
(* Two-Factor Challenge Manager: email_service.generate_2fa_code and       *)
(* email_service.verify_2fa_code, as section 4.3 of the specification      *)
(* describes them (app/services is not part of the sources at hand).       *)
(***************************************************************************)
\* settings.TWO_FA_CODE_EXPIRE_MINUTES
TWO_FA_CODE_EXPIRE_MINUTES == 10

\* The fixed-length numeric codes the generator may draw.
Codes == {"111111", "222222"}

NoChallenge == [code |-> NULL, expires_at |-> Never]
NoChallenges == [i \in AnyIds |-> NoChallenge]

\* generate(principal_id) -> code: records the code with its expiry,
\* overwriting any pending challenge of that principal.
generate_2fa_code(store, principal_id, code, current_time) ==
    [store EXCEPT ![principal_id] =
        [code |-> code, expires_at |-> current_time + TWO_FA_CODE_EXPIRE_MINUTES * 60]]

challenge_expired(challenge, current_time) == current_time > challenge.expires_at

\* verify(principal_id, code) -> bool: false without a pending challenge, for
\* an expired one (which is deleted) and for another code; true, deleting the
\* challenge, otherwise.  Whether a wrong code leaves the challenge in place
\* is not guaranteed: `keep` is the choice the implementation makes.
verify_2fa_code(store, principal_id, code, current_time, keep) ==
    LET challenge == store[principal_id]
        deleted   == [store EXCEPT ![principal_id] = NoChallenge]
    IN  IF challenge = NoChallenge THEN [is_valid |-> FALSE, store |-> store]
        ELSE IF challenge_expired(challenge, current_time)
        THEN [is_valid |-> FALSE, store |-> deleted]
        ELSE IF challenge.code # code
        THEN [is_valid |-> FALSE, store |-> IF keep THEN store ELSE deleted]
        ELSE [is_valid |-> TRUE, store |-> deleted]

(***************************************************************************)
(* Login and two-factor endpoints: app/api/routers/auth.py                 *)
(***************************************************************************)
NoTokens == [token_type |-> "none"]
NoMail == [to |-> NULL, code |-> NULL, delivered |-> FALSE]

\* The outcome of one operation: its response and the e-mail it handed to
\* the notifier.
Response(op, req, outcome, status, detail, user_id, tokens, mail) ==
    [op |-> op, req |-> req, outcome |-> outcome, status |-> status,
     detail |-> detail, user_id |-> user_id, tokens |-> tokens, mail |-> mail]

\* authenticate that tries the row found by email when the password does
\* not verify against the row found by username.
authenticate_FallThroughMutant(table, username_or_email, password) ==
    LET by_name == get_by_username(table, username_or_email)
        by_mail == get_by_email(table, username_or_email)
        ok(u)   == /\ u # NoUser
                   /\ table[u].hashed_password # NoPasswordHash
                   /\ verify_password(password, table[u].hashed_password)
    IN  IF ok(by_name) THEN [raised |-> FALSE, user |-> by_name]
        ELSE IF ok(by_mail) THEN [raised |-> FALSE, user |-> by_mail]
        ELSE [raised |-> FALSE, user |-> NoUser]

\* user_crud.authenticate: by username first, then by email; None for an
\* unknown identifier or a wrong password.  verify_password raises
\* AttributeError on a row without a password hash.
authenticate(table, username_or_email, password) ==
    LET by_name == get_by_username(table, username_or_email)
        user    == IF by_name = NoUser THEN get_by_email(table, username_or_email)
                   ELSE by_name
    IN  IF user = NoUser THEN [raised |-> FALSE, user |-> NoUser]
        ELSE IF table[user].hashed_password = NoPasswordHash THEN [raised |-> TRUE, user |-> NoUser]
        ELSE IF ~verify_password(password, table[user].hashed_password)
        THEN [raised |-> FALSE, user |-> NoUser]
        ELSE [raised |-> FALSE, user |-> user]

\* send_2fa_email(to, username, code): the message given to the notifier;
\* `sent` is whether the notifier delivered it.
send_2fa_email(table, user, code, sent) ==
    [to |-> table[user].email, code |-> code, delivered |-> sent]

\* user_service.authenticate_user(db, username_or_email, password): the
\* token pair of the authenticated principal.
authenticate_user(table, user, current_time) == Tokens(table, user, current_time)

\* login without the two-factor branch.
login_Skip2FAMutant(table, store, req, code, sent, current_time) ==
    LET auth == authenticate(table, req.username_or_email, req.password)
        user == auth.user
        stamped == [table EXCEPT ![user].last_login_at = current_time]
    IN  IF user = NoUser
        THEN [users |-> table, challenges |-> store,
              resp |-> Response("login", req, "InvalidCredentials", 401,
                                "Incorrect username/email or password",
                                NoUser, NoTokens, NoMail)]
        ELSE [users |-> stamped, challenges |-> store,
              resp |-> Response("login", req, "tokens", 200, "", user,
                                authenticate_user(stamped, user, current_time), NoMail)]

\* login that answers requires_2fa and mails a code without recording it.
login_NoGenerateMutant(table, store, req, code, sent, current_time) ==
    LET auth == authenticate(table, req.username_or_email, req.password)
        user == auth.user
        stamped == [table EXCEPT ![user].last_login_at = current_time]
    IN  IF user = NoUser
        THEN [users |-> table, challenges |-> store,
              resp |-> Response("login", req, "InvalidCredentials", 401,
                                "Incorrect username/email or password",
                                NoUser, NoTokens, NoMail)]
        ELSE IF ~is_active(table[user])
        THEN [users |-> table, challenges |-> store,
              resp |-> Response("login", req, "InactiveAccount", 400, "Inactive user",
                                NoUser, NoTokens, NoMail)]
        ELSE IF table[user].two_fa_enabled
        THEN [users |-> table, challenges |-> store,
              resp |-> Response("login", req, "requires_2fa", 200,
                                "2FA code sent to your email", user, NoTokens,
                                send_2fa_email(table, user, code, sent))]
        ELSE [users |-> stamped, challenges |-> store,
              resp |-> Response("login", req, "tokens", 200, "", user,
                                authenticate_user(stamped, user, current_time), NoMail)]

\* POST /login.  `code` is the code the generator draws when a challenge is
\* created, `sent` the notifier's result.
login(table, store, req, code, sent, current_time) ==
    LET auth == authenticate(table, req.username_or_email, req.password)
        user == auth.user
        stamped == [table EXCEPT ![user].last_login_at = current_time]
    IN  IF auth.raised
        THEN [users |-> table, challenges |-> store,
              resp |-> Response("login", req, "InternalError", 500, "AttributeError",
                                NoUser, NoTokens, NoMail)]
        ELSE IF user = NoUser
        THEN [users |-> table, challenges |-> store,
              resp |-> Response("login", req, "InvalidCredentials", 401,
                                "Incorrect username/email or password",
                                NoUser, NoTokens, NoMail)]
        ELSE IF ~is_active(table[user])
        THEN [users |-> table, challenges |-> store,
              resp |-> Response("login", req, "InactiveAccount", 400, "Inactive user",
                                NoUser, NoTokens, NoMail)]
        ELSE IF table[user].two_fa_enabled
        THEN [users |-> table,
              challenges |-> generate_2fa_code(store, user, code, current_time),
              resp |-> Response("login", req, "requires_2fa", 200,
                                "2FA code sent to your email", user, NoTokens,
                                send_2fa_email(table, user, code, sent))]
        ELSE [users |-> stamped, challenges |-> store,
              resp |-> Response("login", req, "tokens", 200, "", user,
                                authenticate_user(stamped, user, current_time), NoMail)]

\* user_service.get_user_by_id: the row, or NotFound.
get_user_by_id(table, user_id) == get(table, user_id)

\* verify_2fa that issues tokens whatever verify_2fa_code answers.
verify_2fa_IgnoreInvalidMutant(table, store, req, keep, current_time) ==
    LET v == verify_2fa_code(store, req.user_id, req.code, current_time, keep)
        user == get_user_by_id(table, req.user_id)
        stamped == [table EXCEPT ![user].last_login_at = current_time]
    IN  IF user = NoUser
        THEN [users |-> table, challenges |-> v.store,
              resp |-> Response("verify_2fa", req, "NotFound", 404, "User not found",
                                NoUser, NoTokens, NoMail)]
        ELSE [users |-> stamped, challenges |-> v.store,
              resp |-> Response("verify_2fa", req, "tokens", 200, "", user,
                                Tokens(stamped, user, current_time), NoMail)]

\* verify_2fa that stamps last_login_at before it looks at the code.
verify_2fa_StampFirstMutant(table, store, req, keep, current_time) ==
    LET v == verify_2fa_code(store, req.user_id, req.code, current_time, keep)
        user == get_user_by_id(table, req.user_id)
        stamped == IF user = NoUser THEN table
                   ELSE [table EXCEPT ![user].last_login_at = current_time]
    IN  IF ~v.is_valid
        THEN [users |-> stamped, challenges |-> v.store,
              resp |-> Response("verify_2fa", req, "InvalidCode", 401,
                                "Invalid or expired 2FA code", NoUser, NoTokens, NoMail)]
        ELSE IF user = NoUser
        THEN [users |-> table, challenges |-> v.store,
              resp |-> Response("verify_2fa", req, "NotFound", 404, "User not found",
                                NoUser, NoTokens, NoMail)]
        ELSE [users |-> stamped, challenges |-> v.store,
              resp |-> Response("verify_2fa", req, "tokens", 200, "", user,
                                Tokens(stamped, user, current_time), NoMail)]

\* POST /verify-2fa.
verify_2fa(table, store, req, keep, current_time) ==
    LET v == verify_2fa_code(store, req.user_id, req.code, current_time, keep)
        user == get_user_by_id(table, req.user_id)
        stamped == [table EXCEPT ![user].last_login_at = current_time]
    IN  IF ~v.is_valid
        THEN [users |-> table, challenges |-> v.store,
              resp |-> Response("verify_2fa", req, "InvalidCode", 401,
                                "Invalid or expired 2FA code", NoUser, NoTokens, NoMail)]
        ELSE IF user = NoUser
        THEN [users |-> table, challenges |-> v.store,
              resp |-> Response("verify_2fa", req, "NotFound", 404, "User not found",
                                NoUser, NoTokens, NoMail)]
        ELSE [users |-> stamped, challenges |-> v.store,
              resp |-> Response("verify_2fa", req, "tokens", 200, "", user,
                                Tokens(stamped, user, current_time), NoMail)]

\* test_2fa that drops the challenge when the e-mail could not be sent.
test_2fa_RollbackMutant(table, store, req, code, sent, current_time) ==
    LET cur == get_current_active_user(req.token, table, current_time)
        user == cur.user_id
        mail == send_2fa_email(table, user, code, sent)
    IN  IF cur.outcome # "ok"
        THEN [users |-> table, challenges |-> store,
              resp |-> Response("test_2fa", req, cur.outcome, cur.status, cur.detail,
                                NoUser, NoTokens, NoMail)]
        ELSE IF ~sent
        THEN [users |-> table, challenges |-> store,
              resp |-> Response("test_2fa", req, "SendFailed", 500,
                                "Failed to send test email. Check SMTP configuration.",
                                user, NoTokens, mail)]
        ELSE [users |-> table,
              challenges |-> generate_2fa_code(store, user, code, current_time),
              resp |-> Response("test_2fa", req, "sent", 200,
                                "Test 2FA code sent to your email", user, NoTokens, mail)]

\* POST /test-2fa.
test_2fa(table, store, req, code, sent, current_time) ==
    LET cur == get_current_active_user(req.token, table, current_time)
        user == cur.user_id
        mail == send_2fa_email(table, user, code, sent)
    IN  IF cur.outcome # "ok"
        THEN [users |-> table, challenges |-> store,
              resp |-> Response("test_2fa", req, cur.outcome, cur.status, cur.detail,
                                NoUser, NoTokens, NoMail)]
        ELSE IF ~sent
        THEN [users |-> table,
              challenges |-> generate_2fa_code(store, user, code, current_time),
              resp |-> Response("test_2fa", req, "SendFailed", 500,
                                "Failed to send test email. Check SMTP configuration.",
                                user, NoTokens, mail)]
        ELSE [users |-> table,
              challenges |-> generate_2fa_code(store, user, code, current_time),
              resp |-> Response("test_2fa", req, "sent", 200,
                                "Test 2FA code sent to your email", user, NoTokens, mail)]

\* email_service.send_email(to, subject, body, html): the message given to
\* the notifier; `sent` is whether the notifier delivered it.
send_email(table, user, sent) ==
    [to |-> table[user].email, code |-> NULL, delivered |-> sent]

\* enable_2fa that mails its confirmation also when two-factor was
\* already enabled.
enable_2fa_NotifyAlwaysMutant(table, store, req, sent, current_time) ==
    LET cur == get_current_active_user(req.token, table, current_time)
        user == cur.user_id
        enabled == [table EXCEPT ![user].two_fa_enabled = TRUE]
    IN  IF cur.outcome # "ok"
        THEN [users |-> table, challenges |-> store,
              resp |-> Response("enable_2fa", req, cur.outcome, cur.status, cur.detail,
                                NoUser, NoTokens, NoMail)]
        ELSE IF table[user].two_fa_enabled
        THEN [users |-> table, challenges |-> store,
              resp |-> Response("enable_2fa", req, "AlreadyEnabled", 400,
                                "2FA is already enabled", user, NoTokens,
                                send_email(table, user, sent))]
        ELSE IF ~table[user].email_verified
        THEN [users |-> table, challenges |-> store,
              resp |-> Response("enable_2fa", req, "EmailNotVerified", 400,
                                "Please verify your email before enabling 2FA",
                                user, NoTokens, NoMail)]
        ELSE [users |-> enabled, challenges |-> store,
              resp |-> Response("enable_2fa", req, "enabled", 200,
                                "2FA has been enabled successfully", user, NoTokens,
                                send_email(enabled, user, sent))]

\* enable_2fa without the check of email_verified.
enable_2fa_NoVerifiedCheckMutant(table, store, req, sent, current_time) ==
    LET cur == get_current_active_user(req.token, table, current_time)
        user == cur.user_id
        enabled == [table EXCEPT ![user].two_fa_enabled = TRUE]
    IN  IF cur.outcome # "ok"
        THEN [users |-> table, challenges |-> store,
              resp |-> Response("enable_2fa", req, cur.outcome, cur.status, cur.detail,
                                NoUser, NoTokens, NoMail)]
        ELSE IF table[user].two_fa_enabled
        THEN [users |-> table, challenges |-> store,
              resp |-> Response("enable_2fa", req, "AlreadyEnabled", 400,
                                "2FA is already enabled", user, NoTokens, NoMail)]
        ELSE [users |-> enabled, challenges |-> store,
              resp |-> Response("enable_2fa", req, "enabled", 200,
                                "2FA has been enabled successfully", user, NoTokens,
                                send_email(enabled, user, sent))]

\* POST /enable-2fa.  `sent` is the notifier's result, which the handler
\* does not look at.
enable_2fa(table, store, req, sent, current_time) ==
    LET cur == get_current_active_user(req.token, table, current_time)
        user == cur.user_id
        enabled == [table EXCEPT ![user].two_fa_enabled = TRUE]
    IN  IF cur.outcome # "ok"
        THEN [users |-> table, challenges |-> store,
              resp |-> Response("enable_2fa", req, cur.outcome, cur.status, cur.detail,
                                NoUser, NoTokens, NoMail)]
        ELSE IF table[user].two_fa_enabled
        THEN [users |-> table, challenges |-> store,
              resp |-> Response("enable_2fa", req, "AlreadyEnabled", 400,
                                "2FA is already enabled", user, NoTokens, NoMail)]
        ELSE IF ~table[user].email_verified
        THEN [users |-> table, challenges |-> store,
              resp |-> Response("enable_2fa", req, "EmailNotVerified", 400,
                                "Please verify your email before enabling 2FA",
                                user, NoTokens, NoMail)]
        ELSE [users |-> enabled, challenges |-> store,
              resp |-> Response("enable_2fa", req, "enabled", 200,
                                "2FA has been enabled successfully", user, NoTokens,
                                send_email(enabled, user, sent))]

\* POST /disable-2fa.  verify_password raises AttributeError on a row
\* without a password hash (None has no encode), which nothing catches.
disable_2fa(table, store, req, sent, current_time) ==
    LET cur == get_current_active_user(req.token, table, current_time)
        user == cur.user_id
        disabled == [table EXCEPT ![user].two_fa_enabled = FALSE]
    IN  IF cur.outcome # "ok"
        THEN [users |-> table, challenges |-> store,
              resp |-> Response("disable_2fa", req, cur.outcome, cur.status, cur.detail,
                                NoUser, NoTokens, NoMail)]
        ELSE IF ~table[user].two_fa_enabled
        THEN [users |-> table, challenges |-> store,
              resp |-> Response("disable_2fa", req, "NotEnabled", 400,
                                "2FA is not enabled", user, NoTokens, NoMail)]
        ELSE IF table[user].hashed_password = NoPasswordHash
        THEN [users |-> table, challenges |-> store,
              resp |-> Response("disable_2fa", req, "InternalError", 500, "AttributeError",
                                user, NoTokens, NoMail)]
        ELSE IF ~verify_password(req.password, table[user].hashed_password)
        THEN [users |-> table, challenges |-> store,
              resp |-> Response("disable_2fa", req, "WrongPassword", 401,
                                "Incorrect password", user, NoTokens, NoMail)]
        ELSE [users |-> disabled, challenges |-> store,
              resp |-> Response("disable_2fa", req, "disabled", 200,
                                "2FA has been disabled successfully", user, NoTokens,
                                send_email(disabled, user, sent))]

(***************************************************************************)
(* Rate Admission Controller: app/middleware/rate_limiting.py              *)
(***************************************************************************)
\* settings.RATE_LIMIT_PER_MINUTE: configurable, 60 by default; a small
\* limit keeps the window sequences short.
RATE_LIMIT_PER_MINUTE == 2
\* settings.RATE_LIMIT_ENABLED
RATE_LIMIT_ENABLED == TRUE
\* self.window = 60
window == 60

\* The clock of SpecRate advances in steps of TickRate seconds up to MaxTimeRate.
TickRate == 20
MaxTimeRate == 60
\* Number of HTTP requests followed through the middleware.
MaxReq == 4
\* Number of requests that may be waiting for their dispatch at the same time.
MaxConcurrent == 2

Hosts == {"10.0.0.1", "10.0.0.2"}
NoClient == "None"
ExemptPaths == {"/", "/api/v1/health", "/api/docs", "/api/redoc"}
Paths == {"/api/v1/health", "/api/v1/auth/login"}
ReqIds == 1..MaxReq

\* client_ip that files every client under one key.
client_ip_SharedKeyMutant(client) == "unknown"

\* client_ip = request.client.host if request.client else "unknown"
client_ip(client) == IF client = NoClient THEN "unknown" ELSE client

ClientKeys == {client_ip(c) : c \in Hosts \cup {NoClient}}

\* prune that keeps an entry until it is older than the window.
prune_InclusiveMutant(entries, current_time) ==
    LET Keep(e) == current_time - e[1] <= window
    IN  SelectSeq(entries, Keep)

\* The list comprehension that keeps the entries inside the window.
prune(entries, current_time) ==
    LET Keep(e) == current_time - e[1] < window
    IN  SelectSeq(entries, Keep)

\* "if request_count >= self.rate_limit" rejects; the request is let through otherwise.
limit_reached_GtMutant(request_count) == request_count > RATE_LIMIT_PER_MINUTE

limit_reached(request_count) == request_count >= RATE_LIMIT_PER_MINUTE

\* dispatch with the append lost (the admitted request leaves no entry).
dispatch_LostAppendMutant(reqs, client, path, current_time) ==
    LET ip     == client_ip(client)
        kept   == prune(reqs[ip], current_time)
        count  == SumCounts(kept)
    IN  IF ~RATE_LIMIT_ENABLED \/ path \in ExemptPaths
        THEN [requests |-> reqs, verdict |-> "bypassed", count |-> 0, status |-> 200,
              rate_limit |-> NULL, window |-> NULL]
        ELSE IF limit_reached(count)
        THEN [requests |-> [reqs EXCEPT ![ip] = kept], verdict |-> "rejected",
              count |-> count, status |-> 429,
              rate_limit |-> RATE_LIMIT_PER_MINUTE, window |-> window]
        ELSE [requests |-> [reqs EXCEPT ![ip] = kept],
              verdict |-> "admitted", count |-> count, status |-> 200,
              rate_limit |-> NULL, window |-> NULL]

\* dispatch that counts the rejected request as well.
dispatch_CountRejectedMutant(reqs, client, path, current_time) ==
    LET ip     == client_ip(client)
        kept   == prune(reqs[ip], current_time)
        count  == SumCounts(kept)
    IN  IF ~RATE_LIMIT_ENABLED \/ path \in ExemptPaths
        THEN [requests |-> reqs, verdict |-> "bypassed", count |-> 0, status |-> 200,
              rate_limit |-> NULL, window |-> NULL]
        ELSE IF limit_reached(count)
        THEN [requests |-> [reqs EXCEPT ![ip] = Append(kept, <<current_time, 1>>)],
              verdict |-> "rejected", count |-> count, status |-> 429,
              rate_limit |-> RATE_LIMIT_PER_MINUTE, window |-> window]
        ELSE [requests |-> [reqs EXCEPT ![ip] = Append(kept, <<current_time, 1>>)],
              verdict |-> "admitted", count |-> count, status |-> 200,
              rate_limit |-> NULL, window |-> NULL]

\* dispatch without the list of exempt paths.
dispatch_NoExemptMutant(reqs, client, path, current_time) ==
    LET ip     == client_ip(client)
        kept   == prune(reqs[ip], current_time)
        count  == SumCounts(kept)
    IN  IF ~RATE_LIMIT_ENABLED
        THEN [requests |-> reqs, verdict |-> "bypassed", count |-> 0, status |-> 200,
              rate_limit |-> NULL, window |-> NULL]
        ELSE IF limit_reached(count)
        THEN [requests |-> [reqs EXCEPT ![ip] = kept], verdict |-> "rejected",
              count |-> count, status |-> 429,
              rate_limit |-> RATE_LIMIT_PER_MINUTE, window |-> window]
        ELSE [requests |-> [reqs EXCEPT ![ip] = Append(kept, <<current_time, 1>>)],
              verdict |-> "admitted", count |-> count, status |-> 200,
              rate_limit |-> NULL, window |-> NULL]

\* The synchronous part of dispatch (no await between time.time() and the
\* append or the 429 response): the new window map and the verdict.
dispatch(reqs, client, path, current_time) ==
    LET ip     == client_ip(client)
        kept   == prune(reqs[ip], current_time)
        count  == SumCounts(kept)
    IN  IF ~RATE_LIMIT_ENABLED \/ path \in ExemptPaths
        THEN [requests |-> reqs, verdict |-> "bypassed", count |-> 0, status |-> 200,
              rate_limit |-> NULL, window |-> NULL]
        ELSE IF limit_reached(count)
        THEN [requests |-> [reqs EXCEPT ![ip] = kept], verdict |-> "rejected",
              count |-> count, status |-> 429,
              rate_limit |-> RATE_LIMIT_PER_MINUTE, window |-> window]
        ELSE [requests |-> [reqs EXCEPT ![ip] = Append(kept, <<current_time, 1>>)],
              verdict |-> "admitted", count |-> count, status |-> 200,
              rate_limit |-> NULL, window |-> NULL]

NoResponse == [op |-> "none"]

\* The JSON body of the 429 response; NoContent for a response that the
\* handler writes.
NoContent == [detail |-> NULL]
content(d) ==
    IF d.status = 429
    THEN [detail |-> "Rate limit exceeded. Please try again later.",
          rate_limit |-> d.rate_limit, window |-> ToString(d.window) \o "s"]
    ELSE NoContent

IdleReq == [pc |-> "idle", client |-> NULL, path |-> NULL, at |-> 0,
            count |-> 0, verdict |-> "none", status |-> 0, content |-> NoContent]

\* A request reaches the server; its task has not run the middleware yet.
Arrive(r) ==
    /\ rl[r].pc = "idle"
    /\ \A q \in ReqIds : q < r => rl[q].pc # "idle"
    /\ Cardinality({q \in ReqIds : rl[q].pc = "arrived"}) < MaxConcurrent
    /\ \E c \in Hosts, p \in Paths :
         rl' = [rl EXCEPT ![r] = [IdleReq EXCEPT !.pc = "arrived", !.client = c, !.path = p]]
    /\ UNCHANGED <<now, requests, users, next_id, challenges, resp, calls>>

\* The task runs dispatch: the synchronous part decides, then either the 429
\* response is returned or call_next is awaited and the response gets its
\* X-RateLimit headers; nothing after the decision touches the window map.
Dispatch(r) ==
    /\ rl[r].pc = "arrived"
    /\ LET d == dispatch(requests, rl[r].client, rl[r].path, now)
       IN  /\ requests' = d.requests
           /\ rl' = [rl EXCEPT ![r] = [@ EXCEPT
                        !.pc = "done",
                        !.at = now, !.count = d.count,
                        !.verdict = d.verdict, !.status = d.status,
                        !.content = content(d)]]
    /\ UNCHANGED <<now, users, next_id, challenges, resp, calls>>

TickRL ==
    /\ now + TickRate <= MaxTimeRate
    /\ now' = now + TickRate
    /\ UNCHANGED <<requests, rl, users, next_id, challenges, resp, calls>>

InitRate ==
    /\ now = 0
    /\ requests = [k \in ClientKeys |-> <<>>]
    /\ rl = [r \in ReqIds |-> IdleReq]
    /\ users = <<>>
    /\ next_id = 1
    /\ challenges = <<>>
    /\ calls = NoCalls
    /\ resp = NoResponse

NextRate ==
    \/ \E r \in ReqIds : Arrive(r)
    \/ \E r \in ReqIds : Dispatch(r)
    \/ TickRL

SpecRate == InitRate /\ [][NextRate]_vars

(***************************************************************************)
(* Claims about the Rate Admission Controller (SpecRate).                  *)
(***************************************************************************)
\* The sum of the increments of the entries younger than the window at time t.
LiveSum(entries, t) ==
    LET Live(e) == t - e[1] < window
    IN  SumCounts(SelectSeq(entries, Live))

Counted(r) == rl[r].pc = "done" /\ rl[r].verdict \in {"admitted", "rejected"}
Admitted(r) == rl[r].pc = "done" /\ rl[r].verdict = "admitted"

\* C3: after every step, each client's live sum (entries younger than the
\* window) is at most the limit, and a step that admits a request starts from
\* a state where that client's live sum is strictly below the limit.
C3_LiveSumWithinLimit ==
    [][ /\ \A k \in ClientKeys : LiveSum(requests'[k], now') <= RATE_LIMIT_PER_MINUTE
        /\ \A r \in ReqIds :
              (rl[r].pc = "arrived" /\ rl'[r].verdict = "admitted")
              => LiveSum(requests[client_ip(rl[r].client)], now) < RATE_LIMIT_PER_MINUTE
      ]_vars

\* C3 witness: a client at the limit has had a request rejected while another
\* request of it was admitted.
C3_Witness ==
    \E r, q \in ReqIds :
        /\ rl[r].verdict = "rejected" /\ rl[q].verdict = "admitted"
        /\ rl[r].client = rl[q].client
        /\ LiveSum(requests[client_ip(rl[r].client)], now) = RATE_LIMIT_PER_MINUTE

\* C4: whatever the interleaving, the requests of one client admitted inside
\* one window are at most the limit, and of two requests of one client
\* dispatched at the same instant, the first of which found a live sum of
\* limit-1, exactly one is admitted.
C4_AtomicAdmission ==
    /\ \A r \in ReqIds :
          Admitted(r) =>
            Cardinality({q \in ReqIds :
                           /\ Admitted(q) /\ rl[q].client = rl[r].client
                           /\ rl[q].at <= rl[r].at
                           /\ rl[r].at - rl[q].at < window}) <= RATE_LIMIT_PER_MINUTE
    /\ \A r, q \in ReqIds :
          (/\ r # q /\ Counted(r) /\ Counted(q)
           /\ rl[r].client = rl[q].client /\ rl[r].at = rl[q].at
           /\ rl[r].count = RATE_LIMIT_PER_MINUTE - 1
           /\ rl[q].count >= rl[r].count)
          => (rl[r].verdict = "admitted" /\ rl[q].verdict = "rejected")

\* C4 witness: two requests of one client were waiting together, were
\* dispatched at the same instant with a live sum of limit-1, and one of them
\* was admitted and the other rejected.
C4_Witness ==
    \E r, q \in ReqIds :
        /\ r # q /\ rl[r].client = rl[q].client /\ rl[r].at = rl[q].at
        /\ rl[r].verdict = "admitted" /\ rl[r].count = RATE_LIMIT_PER_MINUTE - 1
        /\ rl[q].verdict = "rejected" /\ q < r

\* The requests of the client of r admitted less than a window before t.
AdmittedWithin(r, t) ==
    {q \in ReqIds : /\ Admitted(q) /\ rl[q].client = rl[r].client
                    /\ t - rl[q].at < window}

\* The step in which the middleware decides request r on a path that is
\* not exempt.
Decides(r) ==
    /\ rl[r].pc = "arrived" /\ rl'[r].pc = "done"
    /\ rl[r].path \notin ExemptPaths

\* C26: a request is admitted exactly when fewer than the limit of its
\* client's earlier requests were admitted less than a window before it.  So
\* a client without live entries gets its first L requests inside one window
\* admitted and the next one inside that window rejected, and it is admitted
\* again as soon as the oldest of these has reached the age of the window, at
\* most a window after its last admitted request.
C26_WindowAdmission ==
    [][ \A r \in ReqIds :
          Decides(r) =>
            /\ (rl'[r].verdict = "admitted")
                  = (Cardinality(AdmittedWithin(r, now)) < RATE_LIMIT_PER_MINUTE)
            /\ (rl'[r].verdict = "rejected")
                  = (Cardinality(AdmittedWithin(r, now)) >= RATE_LIMIT_PER_MINUTE)
            /\ (\A q \in ReqIds : (Admitted(q) /\ rl[q].client = rl[r].client)
                                     => now - rl[q].at >= window)
               => rl'[r].verdict = "admitted"
      ]_vars

\* C26 witness: a client had L requests admitted at one instant, a further
\* request inside their window rejected, and a request admitted at the
\* instant those entries reached the age of the window.
C26_Witness ==
    \E r, q \in ReqIds :
        /\ Admitted(r) /\ rl[q].pc = "done" /\ rl[q].verdict = "rejected"
        /\ rl[q].client = rl[r].client /\ rl[q].at < rl[r].at
        /\ Cardinality({p \in ReqIds : /\ Admitted(p) /\ rl[p].client = rl[r].client
                                       /\ rl[p].at = rl[r].at - window})
             = RATE_LIMIT_PER_MINUTE

\* C27: a request to an exempt path is passed to the handler whatever its
\* client's window holds, and the window sequence of every client is left
\* as it was: no entry is added and none is pruned.
C27_ExemptBypass ==
    [][ \A r \in ReqIds :
          (rl[r].pc = "arrived" /\ rl'[r].pc = "done" /\ rl[r].path \in ExemptPaths)
          => /\ rl'[r].verdict = "bypassed" /\ rl'[r].status = 200
             /\ rl'[r].content = NoContent
             /\ requests' = requests
      ]_vars

\* C27 witness: a health check was passed to the handler at an instant when
\* its client's window held L entries, all of them as old as the window, and
\* the entries are still there.
C27_Witness ==
    \E r \in ReqIds :
        /\ rl[r].pc = "done" /\ rl[r].path \in ExemptPaths /\ rl[r].verdict = "bypassed"
        /\ rl[r].at = now
        /\ LET entries == requests[client_ip(rl[r].client)]
           IN  /\ Len(entries) = RATE_LIMIT_PER_MINUTE
               /\ \A k \in 1..Len(entries) : now - entries[k][1] >= window

\* C28: a request that finds its client's live sum at the limit is answered
\* 429 with the configured limit and window in the body and is not passed to
\* the handler; no entry is appended, so the client's live sum at every
\* later instant is what it would have been without the request.
C28_RejectionLeavesNoEntry ==
    [][ \A r \in ReqIds :
          (/\ Decides(r)
           /\ LiveSum(requests[client_ip(rl[r].client)], now) >= RATE_LIMIT_PER_MINUTE)
          => LET ip == client_ip(rl[r].client)
             IN  /\ rl'[r].verdict = "rejected" /\ rl'[r].status = 429
                 /\ rl'[r].content.rate_limit = RATE_LIMIT_PER_MINUTE
                 /\ rl'[r].content.window = "60s"
                 /\ Len(requests'[ip]) <= Len(requests[ip])
                 /\ \A d \in 0..window :
                       LiveSum(requests'[ip], now + d) = LiveSum(requests[ip], now + d)
      ]_vars

\* C28 witness: a request was rejected with 429, limit and window in the
\* body, and its client's window still holds L entries and no more.
C28_Witness ==
    \E r \in ReqIds :
        /\ rl[r].pc = "done" /\ rl[r].verdict = "rejected" /\ rl[r].status = 429
        /\ rl[r].content.window = "60s"
        /\ rl[r].count = RATE_LIMIT_PER_MINUTE /\ rl[r].at = now
        /\ SumCounts(requests[client_ip(rl[r].client)]) = RATE_LIMIT_PER_MINUTE

\* C29: a request of one client, admitted or rejected, leaves the window
\* sequence of every other client as it was, and with it the verdict a
\* request of another client gets now or at any later instant.
C29_ClientsIndependent ==
    [][ \A r \in ReqIds :
          (rl[r].pc = "arrived" /\ rl'[r].pc = "done")
          => \A b \in Hosts \ {rl[r].client} :
                /\ requests'[client_ip(b)] = requests[client_ip(b)]
                /\ \A d \in {0, TickRate, window}, p \in Paths :
                      dispatch(requests', b, p, now + d).verdict
                        = dispatch(requests, b, p, now + d).verdict
      ]_vars

\* C29 witness: at one instant a client at its limit was rejected and
\* another client was admitted.
C29_Witness ==
    \E r, q \in ReqIds :
        /\ rl[r].pc = "done" /\ rl[q].pc = "done"
        /\ rl[r].client # rl[q].client /\ rl[r].at = rl[q].at
        /\ rl[r].verdict = "rejected" /\ rl[q].verdict = "admitted"

(***************************************************************************)
(* SpecGate: the authorization gate applied to bearer tokens and users     *)
(* tables drawn from bounded sets.                                         *)
(***************************************************************************)
UsernameOf(id) == IF id = 1 THEN "alice" ELSE IF id = 2 THEN "bob" ELSE "carol"
EmailOf(id) == IF id = 1 THEN "alice@x.io" ELSE IF id = 2 THEN "bob@x.io" ELSE "carol@x.io"
PasswordOf(id) == IF id = 1 THEN "pw-alice" ELSE IF id = 2 THEN "pw-bob" ELSE "pw-carol"

\* A registered principal: user_crud.create stores the hashed password.
Registered(id, role) ==
    User(UsernameOf(id), EmailOf(id), hash_password(PasswordOf(id), "salt"), role)

\* Tables of registered principals: any subset of the ids, each principal
\* active or not; principal 1 has any role, the others the default role.
GateTables ==
    UNION {{[i \in D |-> [Registered(i, c[i][2]) EXCEPT !.is_active = c[i][1]]] :
               c \in {d \in [D -> BOOLEAN \X Roles] :
                         \A i \in D : i # 1 => d[i][2] = "user"}} :
           D \in SUBSET UserIds}

\* Bearer tokens a client can present at time t: tokens this service issued
\* to a principal (a current one, or one issued long enough ago to have
\* expired; the role claim is the role at the time of issue), a token signed
\* with another key or algorithm, a token without a subject, and a string
\* that is no JWT.
BearerTokens(t) ==
    LET data(i, r) == [sub |-> str(i), username |-> UsernameOf(i), role |-> r]
        issued == {create_access_token(data(i, "user"), at) :
                      i \in AnyIds, at \in {t, t - ACCESS_TOKEN_EXPIRE_MINUTES * 60 - 1}}
                  \cup {create_access_token(data(1, "superadmin"), t),
                        create_refresh_token(data(1, "user"), t)}
        forged == {[create_access_token(data(1, "superadmin"), t) EXCEPT !.key = "guess"],
                   [create_access_token(data(1, "superadmin"), t) EXCEPT !.alg = "none"],
                   create_access_token([sub |-> NULL, username |-> "alice", role |-> "user"], t),
                   Malformed}
    IN  issued \cup forged

\* One request to an operation guarded by `gate`, carrying `token`.
GateRequest ==
    /\ \E gate \in Gates, token \in BearerTokens(now) :
         resp' = [op |-> "authorize", gate |-> gate, token |-> token,
                  result |-> authorize(gate, token, users, now)]
    /\ UNCHANGED <<now, requests, rl, users, next_id, challenges, calls>>

InitGate ==
    /\ now = 10000
    /\ requests = [k \in ClientKeys |-> <<>>]
    /\ rl = [r \in ReqIds |-> IdleReq]
    /\ users \in GateTables
    /\ next_id = MaxUsers + 1
    /\ challenges = <<>>
    /\ calls = NoCalls
    /\ resp = NoResponse

NextGate == GateRequest

SpecGate == InitGate /\ [][NextGate]_vars

\* The stages of the pipeline, in the claim's terms.
TokenVerifies(token, t) ==
    /\ token.segments = 3
    /\ token.key = SECRET_KEY /\ token.alg = ALGORITHM
    /\ ~(token.claims.exp < t)
    /\ token.claims.sub # NULL
SubjectOf(token) == CHOOSE i \in AnyIds : ToString(i) = token.claims.sub
\* The set of roles an operation guarded by `gate` requires.
RequiredRoles(gate) ==
    CASE gate.kind = "active" -> Roles
      [] gate.kind = "admin" -> {"admin", "superadmin"}
      [] gate.kind = "superadmin" -> {"superadmin"}
      [] OTHER -> {gate.roles[k] : k \in 1..Len(gate.roles)}
FirstFailingStage(gate, token, table, t) ==
    IF ~TokenVerifies(token, t) THEN "Unauthenticated"
    ELSE IF SubjectOf(token) \notin DOMAIN table THEN "PrincipalNotFound"
    ELSE IF ~table[SubjectOf(token)].is_active THEN "InactiveAccount"
    ELSE IF table[SubjectOf(token)].role \notin RequiredRoles(gate)
    THEN "InsufficientPermission"
    ELSE "ok"

\* C2: every request through the gate ends with the outcome of the first
\* failing stage in the order Unauthenticated, PrincipalNotFound,
\* InactiveAccount, InsufficientPermission, and returns a principal only when
\* no stage fails, namely the principal named by the token's subject.
C2_GatePipelineOrder ==
    [][ (resp' # resp /\ resp'.op = "authorize") =>
          LET stage == FirstFailingStage(resp'.gate, resp'.token, users, now)
          IN  /\ resp'.result.outcome = stage
              /\ (stage = "ok") = (resp'.result.user_id # NoUser)
              /\ stage = "ok" => resp'.result.user_id = SubjectOf(resp'.token)
      ]_vars

\* C2 witness: a token with valid signature and expiry of an inactive
\* principal, whose role is not in the required set, was refused with
\* InactiveAccount.
C2_Witness ==
    /\ resp.op = "authorize"
    /\ resp.result.outcome = "InactiveAccount"
    /\ TokenVerifies(resp.token, now)
    /\ users[SubjectOf(resp.token)].role \notin RequiredRoles(resp.gate)
    /\ resp.gate.kind = "require_any_role"

\* A request through the gate whose token verifies and names an active
\* principal of the table: only the role decides.
RoleDecides ==
    /\ resp' # resp /\ resp'.op = "authorize"
    /\ TokenVerifies(resp'.token, now)
    /\ SubjectOf(resp'.token) \in DOMAIN users
    /\ users[SubjectOf(resp'.token)].is_active

\* The message of the role check, naming the required role(s).
RoleMessage(gate) ==
    IF gate.kind = "require_role"
    THEN "Insufficient permissions. " \o gate.roles[1] \o " role required."
    ELSE IF gate.roles = <<"admin", "superadmin">>
    THEN "Insufficient permissions. One of these roles required: admin, superadmin"
    ELSE "Insufficient permissions. One of these roles required: user, admin"

\* C15: for an active principal an operation requiring exactly role R
\* succeeds if and only if the principal's role equals R, and one requiring
\* any of a set S if and only if its role is in S; otherwise it fails with
\* InsufficientPermission (403) and a message naming the required role(s).
C15_RoleMembership ==
    [][ (RoleDecides /\ resp'.gate.kind \in {"require_role", "require_any_role"}) =>
          LET p == SubjectOf(resp'.token)
              gate == resp'.gate
              S == {gate.roles[k] : k \in 1..Len(gate.roles)}
          IN  /\ (resp'.result.outcome = "ok") = (users[p].role \in S)
              /\ gate.kind = "require_role"
                    => (resp'.result.outcome = "ok") = (users[p].role = gate.roles[1])
              /\ resp'.result.outcome = "ok" => resp'.result.user_id = p
              /\ resp'.result.outcome # "ok"
                    => /\ resp'.result.outcome = "InsufficientPermission"
                       /\ resp'.result.status = 403
                       /\ resp'.result.detail = RoleMessage(gate)
      ]_vars

\* C15 witness: an active SUPERADMIN was refused by an operation requiring
\* exactly ADMIN.
C15_Witness ==
    /\ resp.op = "authorize"
    /\ resp.gate = [kind |-> "require_role", roles |-> <<"admin">>]
    /\ TokenVerifies(resp.token, now)
    /\ SubjectOf(resp.token) \in DOMAIN users
    /\ users[SubjectOf(resp.token)].is_active
    /\ users[SubjectOf(resp.token)].role = "superadmin"
    /\ resp.result.outcome = "InsufficientPermission"

\* C17: the gate returns a principal only for a token whose signature
\* verifies, that has not expired and whose kind is "access": a refresh
\* token is never accepted where an access token is expected.
C17_TokenKindChecked ==
    [][ (resp' # resp /\ resp'.op = "authorize" /\ resp'.result.outcome = "ok") =>
          /\ resp'.token.segments = 3
          /\ resp'.token.key = SECRET_KEY /\ resp'.token.alg = ALGORITHM
          /\ ~(resp'.token.claims.exp < now)
          /\ resp'.token.claims.type = "access"
      ]_vars

TokenClaims == [sub : {"1", "2"}, username : {UsernameOf(1), UsernameOf(2)}, role : Roles]

\* The instants of the run, in seconds: around the expiry of an access token
\* and of a refresh token issued at an earlier instant.
TokenInstants ==
    {0, 1, ACCESS_TOKEN_EXPIRE_MINUTES * 60 - 1, ACCESS_TOKEN_EXPIRE_MINUTES * 60,
     ACCESS_TOKEN_EXPIRE_MINUTES * 60 + 1, REFRESH_TOKEN_EXPIRE_DAYS * 86400 - 1,
     REFRESH_TOKEN_EXPIRE_DAYS * 86400, REFRESH_TOKEN_EXPIRE_DAYS * 86400 + 1}

\* create_access_token(data) or create_refresh_token(data) at the current time.
IssueToken(kind, data) ==
    /\ resp' = [op |-> "issue", kind |-> kind, data |-> data, issued_at |-> now,
                token |-> IF kind = "access" THEN create_access_token(data, now)
                          ELSE create_refresh_token(data, now)]
    /\ UNCHANGED <<now, requests, rl, users, next_id, challenges, calls>>

\* decode_token(token) on the token issued last.
VerifyToken ==
    /\ resp.op \in {"issue", "verify"}
    /\ resp' = [op |-> "verify", kind |-> resp.kind, data |-> resp.data,
                issued_at |-> resp.issued_at, token |-> resp.token,
                verified_at |-> now, result |-> decode_token(resp.token, now)]
    /\ UNCHANGED <<now, requests, rl, users, next_id, challenges, calls>>

TickTokenClock ==
    /\ \E t \in TokenInstants : t > now /\ now' = t
    /\ UNCHANGED <<requests, rl, users, next_id, challenges, resp, calls>>

InitToken ==
    /\ now = 0
    /\ requests = [k \in ClientKeys |-> <<>>]
    /\ rl = [r \in ReqIds |-> IdleReq]
    /\ users = <<>>
    /\ next_id = 1
    /\ challenges = NoChallenges
    /\ calls = NoCalls
    /\ resp = NoResponse

NextToken ==
    \/ \E kind \in {"access", "refresh"}, data \in TokenClaims : IssueToken(kind, data)
    \/ VerifyToken
    \/ TickTokenClock

SpecToken == InitToken /\ [][NextToken]_vars

\* The lifetime of a token of each kind, in seconds.
Lifetime(kind) ==
    IF kind = "access" THEN ACCESS_TOKEN_EXPIRE_MINUTES * 60
    ELSE REFRESH_TOKEN_EXPIRE_DAYS * 86400

\* C18: a token issued for (subject, username, role) and verified before its
\* expiry yields the same subject, username and role with its kind and its
\* expiry; verified after its expiry it fails (401).
C18_TokenRoundTrip ==
    [][ (resp' # resp /\ resp'.op = "verify") =>
          LET expiry == resp'.issued_at + Lifetime(resp'.kind)
          IN  /\ now < expiry
                    => /\ resp'.result.ok
                       /\ resp'.result.payload.sub = resp'.data.sub
                       /\ resp'.result.payload.username = resp'.data.username
                       /\ resp'.result.payload.role = resp'.data.role
                       /\ resp'.result.payload.type = resp'.kind
                       /\ resp'.result.payload.exp = expiry
              /\ now > expiry
                    => /\ ~resp'.result.ok
                       /\ resp'.result.status = 401
      ]_vars

\* C18 witness: a refresh token issued at the start of the run was verified
\* one second after its expiry and refused.
C18_Witness ==
    /\ resp.op = "verify" /\ resp.kind = "refresh"
    /\ resp.issued_at = 0
    /\ resp.verified_at = resp.issued_at + Lifetime("refresh") + 1
    /\ ~resp.result.ok

(***************************************************************************)
(* SpecAuth: password login with the two-factor challenge.                 *)
(***************************************************************************)
\* The clock of SpecAuth advances in steps of TickAuth seconds up to MaxTimeAuth.
TickAuth == 700
MaxTimeAuth == 700

\* Tables of two registered principals with a verified e-mail address.
\* Principal 1 has two-factor enabled or not and may have been deactivated
\* since; principal 2 is active and has it disabled.
AuthTables ==
    {[i \in {1, 2} |-> [Registered(i, "user") EXCEPT
                            !.email_verified = TRUE,
                            !.two_fa_enabled = (i = 1 /\ c[1]),
                            !.is_active = (i # 1 \/ c[2])]] :
        c \in BOOLEAN \X BOOLEAN}

LoginRequests ==
    [username_or_email : {UsernameOf(1), EmailOf(1), UsernameOf(2), "nobody"},
     password : {PasswordOf(1), PasswordOf(2)}]

TwoFactorRequests == [user_id : AnyIds, code : Codes]

\* Bearer tokens presented to /test-2fa: an access token of a principal,
\* or a string that is no JWT.
TestRequests(table, t) ==
    {[token |-> create_access_token(token_data(table, i), t)] : i \in DOMAIN table}
    \cup {[token |-> Malformed]}

Login ==
    /\ \E req \in LoginRequests, code \in Codes, sent \in BOOLEAN :
         LET r == login(users, challenges, req, code, sent, now)
         IN  /\ users' = r.users
             /\ challenges' = r.challenges
             /\ resp' = r.resp
    /\ UNCHANGED <<now, requests, rl, next_id, calls>>

Verify2FA ==
    /\ \E req \in TwoFactorRequests, keep \in BOOLEAN :
         LET r == verify_2fa(users, challenges, req, keep, now)
         IN  /\ users' = r.users
             /\ challenges' = r.challenges
             /\ resp' = r.resp
    /\ UNCHANGED <<now, requests, rl, next_id, calls>>

Test2FA ==
    /\ \E req \in TestRequests(users, now), code \in Codes, sent \in BOOLEAN :
         LET r == test_2fa(users, challenges, req, code, sent, now)
         IN  /\ users' = r.users
             /\ challenges' = r.challenges
             /\ resp' = r.resp
    /\ UNCHANGED <<now, requests, rl, next_id, calls>>

TickAuthClock ==
    /\ now + TickAuth <= MaxTimeAuth
    /\ now' = now + TickAuth
    /\ UNCHANGED <<requests, rl, users, next_id, challenges, resp, calls>>

InitAuth ==
    /\ now = 0
    /\ requests = [k \in ClientKeys |-> <<>>]
    /\ rl = [r \in ReqIds |-> IdleReq]
    /\ users \in AuthTables
    /\ next_id = 3
    /\ challenges = NoChallenges
    /\ calls = NoCalls
    /\ resp = NoResponse

NextAuth ==
    \/ Login
    \/ Verify2FA
    \/ Test2FA
    \/ TickAuthClock

SpecAuth == InitAuth /\ [][NextAuth]_vars

(***************************************************************************)
(* Claims about login and the two-factor challenge (SpecAuth).             *)
(***************************************************************************)
\* A step in which the operation `op` completed and changed the table, the
\* challenge store or the response.
OpStep(op) ==
    /\ resp'.op = op
    /\ <<users, challenges, resp>>' # <<users, challenges, resp>>

\* The challenge is pending and unexpired at time t.
Pending(challenge, t) == challenge # NoChallenge /\ ~(t > challenge.expires_at)

\* The login request names principal p, by its username or by its email
\* when that is no principal's username, and carries p's password.
CorrectCredentials(p, req) ==
    /\ \/ req.username_or_email = users[p].username
       \/ /\ req.username_or_email = users[p].email
          /\ \A q \in DOMAIN users : users[q].username # req.username_or_email
    /\ req.password = PasswordOf(p)

\* The step created a challenge for principal p (login of a two-factor
\* principal, or test-send).
GenerateStep(p) ==
    \/ OpStep("login") /\ resp'.outcome = "requires_2fa" /\ resp'.user_id = p
    \/ OpStep("test_2fa") /\ resp'.outcome \in {"sent", "SendFailed"}
                          /\ resp'.user_id = p

\* The password path issues tokens for a two-factor principal only in a
\* verify_two_factor call that matched a pending, unexpired challenge of
\* that principal.
TokensOnlyByMatchedChallenge ==
    \A p \in DOMAIN users :
        (/\ users[p].two_fa_enabled
         /\ (OpStep("login") \/ OpStep("verify_2fa"))
         /\ resp'.outcome = "tokens" /\ resp'.user_id = p)
        => /\ resp'.op = "verify_2fa"
           /\ resp'.req.user_id = p
           /\ Pending(challenges[p], now)
           /\ challenges[p].code = resp'.req.code

C5_ChallengeSingleUse ==
    [][ OpStep("verify_2fa") =>
          LET u == resp'.req.user_id
              matches == Pending(challenges[u], now)
                         /\ challenges[u].code = resp'.req.code
          IN  /\ resp'.outcome = "tokens" => (matches /\ challenges'[u] = NoChallenge)
              /\ (matches /\ u \in DOMAIN users) => resp'.outcome = "tokens"
              /\ challenges[u] = NoChallenge => resp'.outcome = "InvalidCode"
      ]_vars

\* C5 witness: a two-factor principal that has completed a login (its
\* last-authenticated timestamp is set) has no challenge left and a further
\* verify_two_factor at the same instant failed with InvalidCode.
C5_Witness ==
    /\ resp.op = "verify_2fa" /\ resp.outcome = "InvalidCode"
    /\ resp.req.user_id = 1
    /\ users[1].two_fa_enabled /\ users[1].last_login_at = now
    /\ challenges[1] = NoChallenge

\* C6: a generate for principal p (login with two-factor enabled, or
\* test-send) leaves p with exactly the challenge of the code just mailed,
\* expiring TWO_FA_CODE_EXPIRE_MINUTES later, whatever p's challenge was
\* before, and leaves every other principal's challenge as it was;
\* verify_two_factor accepts only the code of the current challenge.
C6_GenerateSupersedes ==
    [][ /\ \A p \in DOMAIN users :
              GenerateStep(p) =>
                /\ challenges'[p] = [code |-> resp'.mail.code,
                                     expires_at |-> now + TWO_FA_CODE_EXPIRE_MINUTES * 60]
                /\ \A q \in DOMAIN challenges : q # p => challenges'[q] = challenges[q]
        /\ (OpStep("verify_2fa") /\ resp'.outcome = "tokens")
             => challenges[resp'.req.user_id].code = resp'.req.code
      ]_vars

\* C6 witness: test-send generated a challenge for principal 1 at the end of
\* the run while the challenge principal 2 got at time 0 is still in place.
C6_Witness ==
    /\ resp.op = "test_2fa" /\ resp.outcome = "sent" /\ resp.user_id = 1
    /\ now = MaxTimeAuth
    /\ challenges[1] = [code |-> resp.mail.code,
                        expires_at |-> now + TWO_FA_CODE_EXPIRE_MINUTES * 60]
    /\ challenges[2] # NoChallenge
    /\ challenges[2].expires_at = TWO_FA_CODE_EXPIRE_MINUTES * 60

\* C7: verify_two_factor fails with InvalidCode, issuing no tokens and
\* leaving every principal's record (so the last-authenticated timestamp)
\* unchanged, when the principal has no pending challenge, when the
\* challenge has expired and when the code does not match; a challenge
\* appears or changes only by a generate for that principal and disappears
\* only by a verify_two_factor for that principal.
C7_InvalidCodeAndLifecycle ==
    [][ /\ OpStep("verify_2fa") =>
              LET u == resp'.req.user_id
              IN  (\/ challenges[u] = NoChallenge
                   \/ now > challenges[u].expires_at
                   \/ challenges[u].code # resp'.req.code)
                  => /\ resp'.outcome = "InvalidCode"
                     /\ resp'.tokens = NoTokens
                     /\ users' = users
        /\ \A p \in DOMAIN challenges :
              challenges'[p] # challenges[p] =>
                 IF challenges'[p] = NoChallenge
                 THEN resp'.op = "verify_2fa" /\ resp'.req.user_id = p
                 ELSE GenerateStep(p)
      ]_vars

\* C7 witness: verify_two_factor with a wrong code failed with InvalidCode
\* for a principal whose challenge is pending and who has never logged in.
C7_Witness ==
    /\ resp.op = "verify_2fa" /\ resp.outcome = "InvalidCode"
    /\ Pending(challenges[resp.req.user_id], now)
    /\ challenges[resp.req.user_id].code # resp.req.code
    /\ users[resp.req.user_id].last_login_at = Never

\* C20: every failed login is answered alike, whether the identifier is
\* unknown, the password is wrong or the account is inactive: the same
\* status and the same message.
C20_UniformLoginFailure ==
    [][ (OpStep("login") /\ resp'.outcome \notin {"tokens", "requires_2fa"}) =>
          /\ resp'.status = 401
          /\ resp'.detail = "Incorrect username/email or password"
      ]_vars

(***************************************************************************)
(* OAuth Identity Resolver: app/db/utils/user_crud.py (get_by_oauth,       *)
(* create_oauth_user, get_or_create_oauth_user) and the Google callback of *)
(* app/api/routers/auth.py.                                                *)
(***************************************************************************)
\* random.randint(1000, 9999): the suffixes drawn in the model.
Suffixes == {1000, 9999}

\* The result of a CRUD call on the users table: the table after it, the row
\* it returns, whether the row was just created, whether the flush raised.
CrudResult(table, user, created, raised) ==
    [users |-> table, user |-> user, created |-> created, raised |-> raised]

get_by_oauth(table, oauth_provider, oauth_id) ==
    scalar_one_or_none({i \in DOMAIN table :
                          /\ table[i].oauth_provider = oauth_provider
                          /\ table[i].oauth_id = oauth_id})

\* create_oauth_user: a taken username gets one random suffix; the new row has
\* no password and the default role.  The unique indexes on username and
\* email make the flush raise IntegrityError when the row repeats either.
create_oauth_user(table, id, email, username, oauth_provider, oauth_id, avatar_url, email_verified, suffix) ==
    LET existing_user == get_by_username(table, username)
        name   == IF existing_user # NoUser THEN username \o ToString(suffix)
                  ELSE username
        db_obj == [User(name, email, NoPasswordHash, "user") EXCEPT
                     !.avatar_url = avatar_url,
                     !.oauth_provider = oauth_provider,
                     !.oauth_id = oauth_id,
                     !.email_verified = email_verified]
    IN  IF get_by_username(table, name) # NoUser \/ get_by_email(table, email) # NoUser
        THEN CrudResult(table, NoUser, FALSE, TRUE)
        ELSE CrudResult((id :> db_obj) @@ table, id, TRUE, FALSE)

\* get_or_create_oauth_user with the email lookup before the identity lookup.
get_or_create_oauth_user_EmailFirstMutant(table, id, email, username, oauth_provider, oauth_id, avatar_url, email_verified, suffix) ==
    LET by_oauth == get_by_oauth(table, oauth_provider, oauth_id)
        by_email == get_by_email(table, email)
        linked == [table EXCEPT
                     ![by_email].oauth_provider = oauth_provider,
                     ![by_email].oauth_id = oauth_id,
                     ![by_email].avatar_url =
                         IF @ = NULL /\ avatar_url # NULL THEN avatar_url ELSE @,
                     ![by_email].email_verified = IF ~@ THEN email_verified ELSE @]
    IN  IF by_email # NoUser THEN CrudResult(linked, by_email, FALSE, FALSE)
        ELSE IF by_oauth # NoUser THEN CrudResult(table, by_oauth, FALSE, FALSE)
        ELSE create_oauth_user(table, id, email, username, oauth_provider, oauth_id,
                               avatar_url, email_verified, suffix)

\* get_or_create_oauth_user whose link overwrites avatar and email-verified.
get_or_create_oauth_user_OverwriteMutant(table, id, email, username, oauth_provider, oauth_id, avatar_url, email_verified, suffix) ==
    LET by_oauth == get_by_oauth(table, oauth_provider, oauth_id)
        by_email == get_by_email(table, email)
        linked == [table EXCEPT
                     ![by_email].oauth_provider = oauth_provider,
                     ![by_email].oauth_id = oauth_id,
                     ![by_email].avatar_url = avatar_url,
                     ![by_email].email_verified = email_verified]
    IN  IF by_oauth # NoUser THEN CrudResult(table, by_oauth, FALSE, FALSE)
        ELSE IF by_email # NoUser THEN CrudResult(linked, by_email, FALSE, FALSE)
        ELSE create_oauth_user(table, id, email, username, oauth_provider, oauth_id,
                               avatar_url, email_verified, suffix)

\* get_or_create_oauth_user without the lookup by external identity.
get_or_create_oauth_user_NoIdentityLookupMutant(table, id, email, username, oauth_provider, oauth_id, avatar_url, email_verified, suffix) ==
    LET by_email == get_by_email(table, email)
        linked == [table EXCEPT
                     ![by_email].oauth_provider = oauth_provider,
                     ![by_email].oauth_id = oauth_id,
                     ![by_email].avatar_url =
                         IF @ = NULL /\ avatar_url # NULL THEN avatar_url ELSE @,
                     ![by_email].email_verified = IF ~@ THEN email_verified ELSE @]
    IN  IF by_email # NoUser THEN CrudResult(linked, by_email, FALSE, FALSE)
        ELSE create_oauth_user(table, id, email, username, oauth_provider, oauth_id,
                               avatar_url, email_verified, suffix)

\* get_or_create_oauth_user: the row with this identity; else the row with
\* this email, linked to the identity (avatar and email-verified filled in
\* when unset); else a new row.
get_or_create_oauth_user(table, id, email, username, oauth_provider, oauth_id, avatar_url, email_verified, suffix) ==
    LET by_oauth == get_by_oauth(table, oauth_provider, oauth_id)
        by_email == get_by_email(table, email)
        linked == [table EXCEPT
                     ![by_email].oauth_provider = oauth_provider,
                     ![by_email].oauth_id = oauth_id,
                     ![by_email].avatar_url =
                         IF @ = NULL /\ avatar_url # NULL THEN avatar_url ELSE @,
                     ![by_email].email_verified = IF ~@ THEN email_verified ELSE @]
    IN  IF by_oauth # NoUser THEN CrudResult(table, by_oauth, FALSE, FALSE)
        ELSE IF by_email # NoUser THEN CrudResult(linked, by_email, FALSE, FALSE)
        ELSE create_oauth_user(table, id, email, username, oauth_provider, oauth_id,
                               avatar_url, email_verified, suffix)

\* settings.GOOGLE_OAUTH_ENABLED.
GOOGLE_OAUTH_ENABLED == TRUE

\* What oauth.google.authorize_access_token gives the callback: a token with
\* the user info, a token without it, or an exception.
Exchanges == {"ok", "no_userinfo", "denied"}

OAuthIds == {"g-1", "g-2"}
Avatars == {NULL, "new.png"}

\* validate_google_user_info(user_info): the fields the callback passes on.
GoogleUserInfos ==
    [oauth_provider : {"google"}, oauth_id : OAuthIds,
     email : {EmailOf(1), EmailOf(2)}, username : {UsernameOf(1)},
     avatar_url : Avatars, email_verified : BOOLEAN]

\* The callback's response together with the `created` flag that
\* get_or_create_oauth_user returned to it.
OAuthResponse(req, outcome, status, detail, user_id, tokens, created) ==
    Response("google_callback", req, outcome, status, detail, user_id, tokens, NoMail)
    @@ [created |-> created]

\* google_callback: exchange the code, resolve the principal, stamp
\* last_login_at, commit, issue the token pair.
google_callback(table, id, exchange, info, suffix, current_time) ==
    LET r == get_or_create_oauth_user(table, id, info.email, info.username,
                                      info.oauth_provider, info.oauth_id,
                                      info.avatar_url, info.email_verified, suffix)
        stamped == [r.users EXCEPT ![r.user].last_login_at = current_time]
    IN  IF ~GOOGLE_OAUTH_ENABLED
        THEN [users |-> table,
              resp |-> OAuthResponse(info, "Unavailable", 503,
                                     "Google OAuth is not enabled", NoUser, NoTokens, FALSE)]
        ELSE IF exchange = "denied"
        THEN [users |-> table,
              resp |-> OAuthResponse(info, "BadRequest", 400,
                                     "Failed to authorize with Google", NoUser, NoTokens, FALSE)]
        ELSE IF exchange = "no_userinfo"
        THEN [users |-> table,
              resp |-> OAuthResponse(info, "BadRequest", 400,
                                     "Failed to get user info from Google", NoUser, NoTokens, FALSE)]
        ELSE IF r.raised
        THEN [users |-> table,
              resp |-> OAuthResponse(info, "InternalError", 500, "IntegrityError",
                                     NoUser, NoTokens, FALSE)]
        ELSE [users |-> stamped,
              resp |-> OAuthResponse(info, "tokens", 200, "", r.user,
                                     Tokens(stamped, r.user, current_time), r.created)]

(***************************************************************************)
(* SpecOAuth: Google callbacks against a users table that is empty or      *)
(* holds one password-registered principal.                                *)
(***************************************************************************)
\* The principal registered before the run: with or without an avatar, with
\* the email verified or not.
OAuthTables ==
    {<<>>} \cup
    {<<[Registered(1, "user") EXCEPT !.avatar_url = a, !.email_verified = v]>> :
        a \in {NULL, "old.png"}, v \in BOOLEAN}

GoogleCallback(exchange, info, suffix) ==
    LET out == google_callback(users, next_id, exchange, info, suffix, now)
    IN  /\ users' = out.users
        /\ next_id' = IF out.resp.created THEN next_id + 1 ELSE next_id
        /\ resp' = out.resp
        /\ UNCHANGED <<now, requests, rl, challenges, calls>>

InitOAuth ==
    /\ now = 100
    /\ requests = [c \in ClientKeys |-> <<>>]
    /\ rl = [r \in ReqIds |-> IdleReq]
    /\ users \in OAuthTables
    /\ next_id = Len(users) + 1
    /\ challenges = NoChallenges
    /\ calls = NoCalls
    /\ resp = NoResponse

NextOAuth ==
    \E exchange \in Exchanges, info \in GoogleUserInfos, suffix \in Suffixes :
        GoogleCallback(exchange, info, suffix)

SpecOAuth == InitOAuth /\ [][NextOAuth]_vars

(***************************************************************************)
(* Claims about the OAuth Identity Resolver (SpecOAuth).  The callback     *)
(* stamps last_login_at on the principal it resolved, so "unmodified" is   *)
(* stated for the other columns of that principal.                         *)
(***************************************************************************)
\* A step in which a callback resolved a principal and issued tokens.
CallbackResolved ==
    /\ resp'.op = "google_callback"
    /\ <<users, resp>>' # <<users, resp>>
    /\ resp'.outcome = "tokens"

\* Row p of the table holds the external identity of the request.
HoldsIdentity(table, p, info) ==
    /\ table[p].oauth_provider = info.oauth_provider
    /\ table[p].oauth_id = info.oauth_id

Holders(table, info) == {p \in DOMAIN table : HoldsIdentity(table, p, info)}

IdentityOf(row) == ExternalIdentity(row.oauth_provider, row.oauth_id)

\* The tables agree on every row and column but last_login_at of row p.
SameButLogin(before, after, p) ==
    /\ DOMAIN after = DOMAIN before
    /\ [after EXCEPT ![p].last_login_at = before[p].last_login_at] = before

\* C8: resolve_oauth is idempotent on the external identity.  A call leaves
\* the principal it returns holding the identity; a call for an identity some
\* principal holds returns that principal with created = false and adds no
\* principal; and a call for another identity never takes an identity away
\* from the principal holding it, so the next call for it returns the same
\* principal again.
C8_ResolveIdempotent ==
    [][ CallbackResolved =>
          LET info == resp'.req
              p == resp'.user_id
          IN  /\ HoldsIdentity(users', p, info)
              /\ Holders(users, info) # {} =>
                    /\ p \in Holders(users, info)
                    /\ ~resp'.created
                    /\ DOMAIN users' = DOMAIN users
              /\ \A q \in DOMAIN users :
                    (users[q].oauth_provider # NULL /\ ~HoldsIdentity(users, q, info))
                    => IdentityOf(users'[q]) = IdentityOf(users[q])
      ]_vars

create(table, id, obj_in) ==
    LET db_obj == User(obj_in.username, obj_in.email,
                       hash_password(obj_in.password, "salt"), obj_in.role)
    IN  IF get_by_username(table, obj_in.username) # NoUser
           \/ get_by_email(table, obj_in.email) # NoUser
        THEN CrudResult(table, NoUser, FALSE, TRUE)
        ELSE CrudResult((id :> db_obj) @@ table, id, TRUE, FALSE)

\* user_service.create_user: the new principal, or Conflict when the store
\* refuses the row.
create_user(table, id, user_in) == create(table, id, user_in)

\* register: the public endpoint.
register(table, id, user_in) ==
    LET r == create_user(table, id, user_in)
    IN  IF r.raised
        THEN [users |-> table,
              resp |-> Response("register", user_in, "Conflict", 400,
                                "Username or email already registered",
                                NoUser, NoTokens, NoMail) @@ [created |-> FALSE]]
        ELSE [users |-> r.users,
              resp |-> Response("register", user_in, "created", 201, "",
                                r.user, NoTokens, NoMail) @@ [created |-> TRUE]]

(***************************************************************************)
(* SpecAccounts: registrations and Google callbacks on a users table that  *)
(* starts empty.                                                           *)
(***************************************************************************)
AccountEmails == {EmailOf(1), EmailOf(2), EmailOf(3)}

\* UserCreate bodies: the username a callback will ask for, or a suffixed
\* variant of it.
RegisterRequests ==
    [username : {UsernameOf(1), UsernameOf(1) \o "1000"}, email : AccountEmails,
     password : {PasswordOf(1)}, role : {"user"}]

\* The user infos of the callbacks: every one asks for the same username.
AccountInfos ==
    [oauth_provider : {"google"}, oauth_id : OAuthIds, email : AccountEmails,
     username : {UsernameOf(1)}, avatar_url : {"new.png"}, email_verified : {TRUE}]

Register(user_in) ==
    LET out == register(users, next_id, user_in)
    IN  /\ users' = out.users
        /\ next_id' = IF out.resp.created THEN next_id + 1 ELSE next_id
        /\ resp' = out.resp
        /\ UNCHANGED <<now, requests, rl, challenges, calls>>

InitAccounts ==
    /\ now = 100
    /\ requests = [c \in ClientKeys |-> <<>>]
    /\ rl = [r \in ReqIds |-> IdleReq]
    /\ users = <<>>
    /\ next_id = 1
    /\ challenges = NoChallenges
    /\ calls = NoCalls
    /\ resp = NoResponse

NextAccounts ==
    \/ \E user_in \in RegisterRequests : Register(user_in)
    \/ \E info \in AccountInfos, suffix \in Suffixes : GoogleCallback("ok", info, suffix)

SpecAccounts == InitAccounts /\ [][NextAccounts]_vars

CallbackCalled ==
    /\ resp'.op = "google_callback"
    /\ <<users, resp>>' # <<users, resp>>
    /\ resp'.outcome \in {"tokens", "InternalError"}

\* Neither the external identity nor the email of the request matches a
\* principal: the resolver takes the creation path.
NothingMatches(table, info) ==
    /\ Holders(table, info) = {}
    /\ \A q \in DOMAIN table : table[q].email # info.email

\* C13: when the resolver creates a principal and the desired username is
\* taken, the call does not fail and the new principal's username differs
\* from every username in the store, whatever the store holds.
C13_UsernameMadeUnique ==
    [][ (/\ CallbackCalled
         /\ NothingMatches(users, resp'.req)
         /\ \E q \in DOMAIN users : users[q].username = resp'.req.username)
        => /\ resp'.outcome = "tokens"
           /\ resp'.created
           /\ resp'.user_id \notin DOMAIN users
           /\ resp'.user_id \in DOMAIN users'
           /\ \A q \in DOMAIN users :
                 users'[resp'.user_id].username # users[q].username
      ]_vars

\* C14: when neither the identity nor the email matches, the resolver adds
\* exactly one principal with role USER, no password hash, the given email,
\* identity and profile fields, returns it with created = true and modifies
\* no existing principal.
C14_CreatesOnePrincipal ==
    [][ (CallbackCalled /\ NothingMatches(users, resp'.req)) =>
          LET info == resp'.req
              new == resp'.user_id
          IN  /\ resp'.outcome = "tokens"
              /\ resp'.created
              /\ new \notin DOMAIN users
              /\ DOMAIN users' = DOMAIN users \cup {new}
              /\ users'[new].role = "user"
              /\ users'[new].hashed_password = NoPasswordHash
              /\ users'[new].email = info.email
              /\ HoldsIdentity(users', new, info)
              /\ users'[new].avatar_url = info.avatar_url
              /\ users'[new].email_verified = info.email_verified
              /\ \A q \in DOMAIN users : users'[q] = users[q]
      ]_vars

(***************************************************************************)
(* SpecRace: two Google callbacks in flight at once.  Each await of        *)
(* get_or_create_oauth_user and create_oauth_user is a step of its own;    *)
(* a write reaches the table in the step of its flush, together with the   *)
(* last_login_at stamp and the commit that follow it without a read.       *)
(***************************************************************************)
CallIds == {1, 2}

RaceInfos ==
    [oauth_provider : {"google"}, oauth_id : OAuthIds, email : {EmailOf(1), EmailOf(2)},
     username : {UsernameOf(1)}, avatar_url : {"new.png"}, email_verified : {TRUE}]

NoInfo ==
    [oauth_provider |-> NULL, oauth_id |-> NULL, email |-> NULL, username |-> NULL,
     avatar_url |-> NULL, email_verified |-> FALSE]

\* A callback that has not started: pc is its position, user the row its
\* lookup returned, name the username it settled on.
IdleCall ==
    [pc |-> "idle", info |-> NoInfo, user |-> NoUser, name |-> NULL,
     outcome |-> "none", created |-> FALSE]

\* The callback ends: it stamps last_login_at on `user`, commits and answers
\* with the token pair.
Finish(c, table, user, created) ==
    LET stamped == [table EXCEPT ![user].last_login_at = now]
    IN  /\ users' = stamped
        /\ calls' = [calls EXCEPT ![c].pc = "done", ![c].user = user,
                                  ![c].outcome = "tokens", ![c].created = created]
        /\ resp' = OAuthResponse(calls[c].info, "tokens", 200, "", user,
                                 Tokens(stamped, user, now), created)

\* google_callback up to the call of get_or_create_oauth_user.
Begin(c, info) ==
    /\ calls[c].pc = "idle"
    /\ calls' = [calls EXCEPT ![c].pc = "get_by_oauth", ![c].info = info]
    /\ UNCHANGED <<now, requests, rl, users, next_id, challenges, resp>>

\* await self.get_by_oauth(...): a hit is returned with created = False.
GetByOAuth(c) ==
    /\ calls[c].pc = "get_by_oauth"
    /\ LET user == get_by_oauth(users, calls[c].info.oauth_provider, calls[c].info.oauth_id)
       IN  IF user # NoUser
           THEN Finish(c, users, user, FALSE) /\ UNCHANGED next_id
           ELSE /\ calls' = [calls EXCEPT ![c].pc = "get_by_email"]
                /\ UNCHANGED <<users, next_id, resp>>
    /\ UNCHANGED <<now, requests, rl, challenges>>

\* await self.get_by_email(...)
GetByEmail(c) ==
    /\ calls[c].pc = "get_by_email"
    /\ LET user == get_by_email(users, calls[c].info.email)
       IN  calls' = [calls EXCEPT ![c].pc = IF user # NoUser THEN "link"
                                            ELSE "get_by_username",
                                  ![c].user = user]
    /\ UNCHANGED <<now, requests, rl, users, next_id, challenges, resp>>

\* The link of the row found by email: await db.flush().
Link(c) ==
    /\ calls[c].pc = "link"
    /\ LET user == calls[c].user
           info == calls[c].info
           linked == [users EXCEPT
                        ![user].oauth_provider = info.oauth_provider,
                        ![user].oauth_id = info.oauth_id,
                        ![user].avatar_url =
                            IF @ = NULL /\ info.avatar_url # NULL THEN info.avatar_url ELSE @,
                        ![user].email_verified = IF ~@ THEN info.email_verified ELSE @]
       IN  Finish(c, linked, user, FALSE)
    /\ UNCHANGED <<now, requests, rl, next_id, challenges>>

\* create_oauth_user: await self.get_by_username(...) and the random suffix.
GetByUsername(c, suffix) ==
    /\ calls[c].pc = "get_by_username"
    /\ LET existing_user == get_by_username(users, calls[c].info.username)
       IN  calls' = [calls EXCEPT
                       ![c].pc = "insert",
                       ![c].name = IF existing_user # NoUser
                                   THEN calls[c].info.username \o ToString(suffix)
                                   ELSE calls[c].info.username]
    /\ UNCHANGED <<now, requests, rl, users, next_id, challenges, resp>>

\* create_oauth_user: db.add and await db.flush(); the unique indexes on
\* username and email raise IntegrityError, which nothing catches.
Insert(c) ==
    /\ calls[c].pc = "insert"
    /\ LET info == calls[c].info
           db_obj == [User(calls[c].name, info.email, NoPasswordHash, "user") EXCEPT
                        !.avatar_url = info.avatar_url,
                        !.oauth_provider = info.oauth_provider,
                        !.oauth_id = info.oauth_id,
                        !.email_verified = info.email_verified]
       IN  IF get_by_username(users, calls[c].name) # NoUser
              \/ get_by_email(users, info.email) # NoUser
           THEN /\ calls' = [calls EXCEPT ![c].pc = "done", ![c].outcome = "InternalError"]
                /\ resp' = OAuthResponse(info, "InternalError", 500, "IntegrityError",
                                         NoUser, NoTokens, FALSE)
                /\ UNCHANGED <<users, next_id>>
           ELSE /\ Finish(c, (next_id :> db_obj) @@ users, next_id, TRUE)
                /\ next_id' = next_id + 1
    /\ UNCHANGED <<now, requests, rl, challenges>>

InitRace ==
    /\ now = 100
    /\ requests = [k \in ClientKeys |-> <<>>]
    /\ rl = [r \in ReqIds |-> IdleReq]
    /\ users = <<>>
    /\ next_id = 1
    /\ challenges = NoChallenges
    /\ calls = [c \in CallIds |-> IdleCall]
    /\ resp = NoResponse

NextRace ==
    \E c \in CallIds :
        \/ \E info \in RaceInfos : Begin(c, info)
        \/ GetByOAuth(c)
        \/ GetByEmail(c)
        \/ Link(c)
        \/ \E suffix \in Suffixes : GetByUsername(c, suffix)
        \/ Insert(c)

SpecRace == InitRace /\ [][NextRace]_vars

\* C12: when two callbacks for the same new external identity or the same
\* new email have both ended, whatever their interleaving, exactly one
\* principal was created, neither call failed, and both returned that
\* principal, one with created = true and the other with created = false.
C12_RaceCreatesOne ==
    (/\ \A c \in CallIds : calls[c].pc = "done"
     /\ \/ calls[1].info.email = calls[2].info.email
        \/ calls[1].info.oauth_id = calls[2].info.oauth_id)
    => /\ Cardinality(DOMAIN users) = 1
       /\ \A c \in CallIds : calls[c].outcome = "tokens"
       /\ calls[1].user = calls[2].user
       /\ calls[1].created # calls[2].created

(***************************************************************************)
(* SpecStore: the user management endpoints of app/api/routers/users.py    *)
(* change the users table between requests through the gate.               *)
(***************************************************************************)
\* user_service.update_user: the fields set in user_in are written to the
\* row, NotFound when there is no such row.
service_update_user(table, user_id, user_in) ==
    IF get(table, user_id) = NoUser
    THEN [table |-> table, result |-> Denied("NotFound", 404, "User not found")]
    ELSE [table |-> [table EXCEPT
                       ![user_id].is_active =
                           IF "is_active" \in DOMAIN user_in THEN user_in.is_active ELSE @,
                       ![user_id].role =
                           IF "role" \in DOMAIN user_in THEN user_in.role ELSE @],
          result |-> Allowed(user_id)]

\* user_service.delete_user: the row is removed, NotFound when there is
\* no such row.
service_delete_user(table, user_id) ==
    IF get(table, user_id) = NoUser
    THEN [table |-> table, result |-> Denied("NotFound", 404, "User not found")]
    ELSE [table |-> [i \in DOMAIN table \ {user_id} |-> table[i]],
          result |-> Allowed(user_id)]

\* PUT /update/{user_id}
update_user(table, token, user_id, user_in, current_time) ==
    LET cur == get_current_active_user(token, table, current_time)
    IN  IF cur.outcome # "ok" THEN [table |-> table, result |-> cur]
        ELSE IF cur.user_id # user_id /\ ~is_admin(table[cur.user_id])
        THEN [table |-> table,
              result |-> Denied("Forbidden", 403, "Not authorized to update this user")]
        ELSE IF "role" \in DOMAIN user_in /\ ~is_superadmin(table[cur.user_id])
        THEN [table |-> table,
              result |-> Denied("Forbidden", 403, "Only superadmin can change user roles")]
        ELSE service_update_user(table, user_id, user_in)

\* DELETE /delete/{user_id}
delete_user(table, token, user_id, current_time) ==
    LET cur == get_current_admin_user(token, table, current_time)
    IN  IF cur.outcome # "ok" THEN [table |-> table, result |-> cur]
        ELSE IF cur.user_id = user_id
        THEN [table |-> table,
              result |-> Denied("BadRequest", 400, "Cannot delete your own account")]
        ELSE service_delete_user(table, user_id)

\* The principals of the table, and the access tokens they were issued at
\* time t, when both had the default role claim.
StoreIds == {1, 2}
CallerTokens(t) ==
    {create_access_token([sub |-> str(i), username |-> UsernameOf(i), role |-> "user"], t) :
        i \in StoreIds}

\* The UserUpdate bodies sent: only the fields that are set.
UserUpdates ==
    {[is_active |-> b] : b \in BOOLEAN} \cup {[role |-> r] : r \in Roles}

UpdateUser(token, user_id, user_in) ==
    /\ LET r == update_user(users, token, user_id, user_in, now)
       IN  /\ users' = r.table
           /\ resp' = [op |-> "update_user", token |-> token, user_id |-> user_id,
                       result |-> r.result]
    /\ UNCHANGED <<now, requests, rl, next_id, challenges, calls>>

DeleteUser(token, user_id) ==
    /\ LET r == delete_user(users, token, user_id, now)
       IN  /\ users' = r.table
           /\ resp' = [op |-> "delete_user", token |-> token, user_id |-> user_id,
                       result |-> r.result]
    /\ UNCHANGED <<now, requests, rl, next_id, challenges, calls>>

\* Two active principals, a superadmin and a user.
InitStore ==
    /\ now = 10000
    /\ requests = [k \in ClientKeys |-> <<>>]
    /\ rl = [r \in ReqIds |-> IdleReq]
    /\ users = [i \in StoreIds |-> Registered(i, IF i = 1 THEN "superadmin" ELSE "user")]
    /\ next_id = MaxUsers + 1
    /\ challenges = <<>>
    /\ calls = NoCalls
    /\ resp = NoResponse

NextStore ==
    \/ GateRequest
    \/ \E token \in CallerTokens(now), user_id \in StoreIds, user_in \in UserUpdates :
         UpdateUser(token, user_id, user_in)
    \/ \E token \in CallerTokens(now), user_id \in StoreIds : DeleteUser(token, user_id)

SpecStore == InitStore /\ [][NextStore]_vars

\* What the table says now about principal i for an operation guarded by
\* `gate`.
CurrentStanding(gate, i, table) ==
    IF i \notin DOMAIN table THEN "PrincipalNotFound"
    ELSE IF ~table[i].is_active THEN "InactiveAccount"
    ELSE IF table[i].role \notin RequiredRoles(gate) THEN "InsufficientPermission"
    ELSE "ok"

\* C16: whatever updates and deletions came before, a request presenting a
\* token that still verifies is judged by the existence, the active flag
\* and the role its subject has in the table at the time of the request;
\* the role claim of the token and the outcome of the request before play
\* no part.
C16_JudgedByCurrentStore ==
    [][ (resp'.op = "authorize" /\ resp' # resp /\ TokenVerifies(resp'.token, now)) =>
          LET i == SubjectOf(resp'.token)
          IN  /\ resp'.result.outcome = CurrentStanding(resp'.gate, i, users)
              /\ resp'.result.outcome = "ok" => resp'.result.user_id = i
      ]_vars

\* C16 witness: principal 1 was a superadmin when its token was issued and
\* has been given another role since; the token still verifies, carries the
\* role claim "superadmin", and was refused at a superadmin operation.
C16_Witness ==
    /\ resp.op = "authorize"
    /\ resp.gate.kind = "superadmin"
    /\ TokenVerifies(resp.token, now)
    /\ resp.token.claims.role = "superadmin"
    /\ SubjectOf(resp.token) = 1
    /\ users[1].is_active /\ users[1].role # "superadmin"
    /\ resp.result.outcome = "InsufficientPermission"

(***************************************************************************)
(* SpecTwoFA: a password account and a federation-only account use login,  *)
(* the two-factor endpoints and the Google callback; a principal may       *)
(* deactivate its own account through PUT /update/{user_id}.               *)
(***************************************************************************)
\* The code the generator draws in this specification.
DrawnCode == "111111"

\* Login attempts: the registered principal by username, the name and the
\* address Google reports for the second account, each with two passwords.
TwoFALogins ==
    [username_or_email : {UsernameOf(1), UsernameOf(2), EmailOf(2)},
     password : {PasswordOf(1), PasswordOf(2)}]

\* Bearer token and password sent to /disable-2fa.
DisableRequests(table, t) ==
    {[token |-> create_access_token(token_data(table, i), t), password |-> pw] :
        i \in DOMAIN table, pw \in {PasswordOf(1), PasswordOf(2)}}

\* What Google reports: identity g-1 with the registered principal's
\* address, identity g-2 with an address nobody registered.
TwoFAInfos ==
    {[oauth_provider |-> "google", oauth_id |-> "g-" \o ToString(i), email |-> EmailOf(i),
      username |-> UsernameOf(i), avatar_url |-> "new.png", email_verified |-> v] :
        i \in StoreIds, v \in BOOLEAN}

TwoFALogin ==
    /\ \E req \in TwoFALogins, sent \in BOOLEAN :
         LET r == login(users, challenges, req, DrawnCode, sent, now)
         IN  /\ users' = r.users
             /\ challenges' = r.challenges
             /\ resp' = r.resp
    /\ UNCHANGED <<now, requests, rl, next_id, calls>>

TwoFAVerify ==
    /\ \E user_id \in StoreIds, code \in Codes, keep \in BOOLEAN :
         LET r == verify_2fa(users, challenges, [user_id |-> user_id, code |-> code],
                             keep, now)
         IN  /\ users' = r.users
             /\ challenges' = r.challenges
             /\ resp' = r.resp
    /\ UNCHANGED <<now, requests, rl, next_id, calls>>

TwoFATest ==
    /\ \E req \in TestRequests(users, now), sent \in BOOLEAN :
         LET r == test_2fa(users, challenges, req, DrawnCode, sent, now)
         IN  /\ users' = r.users
             /\ challenges' = r.challenges
             /\ resp' = r.resp
    /\ UNCHANGED <<now, requests, rl, next_id, calls>>

Enable2FA ==
    /\ \E req \in TestRequests(users, now), sent \in BOOLEAN :
         LET r == enable_2fa(users, challenges, req, sent, now)
         IN  /\ users' = r.users
             /\ challenges' = r.challenges
             /\ resp' = r.resp
    /\ UNCHANGED <<now, requests, rl, next_id, calls>>

Disable2FA ==
    /\ \E req \in DisableRequests(users, now), sent \in BOOLEAN :
         LET r == disable_2fa(users, challenges, req, sent, now)
         IN  /\ users' = r.users
             /\ challenges' = r.challenges
             /\ resp' = r.resp
    /\ UNCHANGED <<now, requests, rl, next_id, calls>>

\* A principal sets is_active = false on its own row.
Deactivate ==
    \E token \in CallerTokens(now), user_id \in StoreIds :
        UpdateUser(token, user_id, [is_active |-> FALSE])

\* One registered principal with a password, its e-mail address verified
\* or not, two-factor disabled.
InitTwoFA ==
    /\ now = 100
    /\ requests = [k \in ClientKeys |-> <<>>]
    /\ rl = [r \in ReqIds |-> IdleReq]
    /\ \E v \in BOOLEAN :
         users = (1 :> [Registered(1, "user") EXCEPT !.email_verified = v])
    /\ next_id = 2
    /\ challenges = NoChallenges
    /\ calls = NoCalls
    /\ resp = NoResponse

NextTwoFA ==
    \/ TwoFALogin
    \/ TwoFAVerify
    \/ TwoFATest
    \/ Enable2FA
    \/ Disable2FA
    \/ \E info \in TwoFAInfos : GoogleCallback("ok", info, 1000)
    \/ Deactivate

SpecTwoFA == InitTwoFA /\ [][NextTwoFA]_vars

(***************************************************************************)
(* Claims about the two-factor endpoints (SpecTwoFA).                      *)
(***************************************************************************)
\* Principal p has no password hash: it was created by the OAuth callback.
FederationOnly(p) == p \in DOMAIN users /\ users[p].hashed_password = NoPasswordHash

\* C21: a password check against a federation-only principal ends in a
\* listed outcome and leaves the table unchanged: login with its username or
\* email ends in InvalidCredentials, disable_two_factor by it (two-factor
\* being enabled) ends in WrongPassword.
C21_NullHashRecoverable ==
    [][ /\ (/\ OpStep("login")
            /\ \E p \in DOMAIN users :
                 /\ FederationOnly(p)
                 /\ resp'.req.username_or_email \in {users[p].username, users[p].email})
           => (resp'.outcome = "InvalidCredentials" /\ users' = users)
        /\ (/\ OpStep("disable_2fa")
            /\ FederationOnly(resp'.user_id)
            /\ users[resp'.user_id].two_fa_enabled)
           => (resp'.outcome = "WrongPassword" /\ users' = users)
      ]_vars

\* C22: in every state reached by enable_2fa, disable_2fa, login,
\* verify_2fa and the OAuth callback from a table where it holds, a principal
\* with two-factor enabled has a verified e-mail address.
C22_TwoFactorNeedsVerifiedEmail ==
    \A p \in DOMAIN users : users[p].two_fa_enabled => users[p].email_verified

\* C22 witness: a callback reporting an unverified address resolved to a
\* password account with two-factor enabled that is linked to its identity.
C22_Witness ==
    /\ resp.op = "google_callback" /\ resp.outcome = "tokens"
    /\ ~resp.req.email_verified
    /\ users[resp.user_id].two_fa_enabled
    /\ users[resp.user_id].hashed_password # NoPasswordHash
    /\ users[resp.user_id].oauth_id = resp.req.oauth_id

\* The principal whose token passed the gate of the two-factor endpoint
\* that answered: the subject of the request's token.
Caller == SubjectOf(resp'.req.token)
PassedGate ==
    /\ TokenVerifies(resp'.req.token, now)
    /\ Caller \in DOMAIN users /\ users[Caller].is_active

\* C23: enable_two_factor fails with AlreadyEnabled when the flag is set,
\* and otherwise with EmailNotVerified when the e-mail address is not
\* verified, leaving the table as it was and mailing nothing; otherwise it
\* sets the flag of the caller and changes nothing else in the table.
C23_EnableTwoFactor ==
    [][ (OpStep("enable_2fa") /\ PassedGate) =>
          IF users[Caller].two_fa_enabled
          THEN /\ resp'.outcome = "AlreadyEnabled" /\ resp'.status = 400
               /\ users' = users /\ resp'.mail = NoMail
          ELSE IF ~users[Caller].email_verified
          THEN /\ resp'.outcome = "EmailNotVerified" /\ resp'.status = 400
               /\ users' = users /\ resp'.mail = NoMail
          ELSE /\ resp'.outcome = "enabled"
               /\ users' = [users EXCEPT ![Caller].two_fa_enabled = TRUE]
               /\ challenges' = challenges
      ]_vars

\* C23 witness: a principal with two-factor enabled asked to enable it and
\* got AlreadyEnabled.
C23_Witness ==
    /\ resp.op = "enable_2fa" /\ resp.outcome = "AlreadyEnabled"
    /\ users[resp.user_id].two_fa_enabled /\ resp.mail = NoMail

\* The password verifies against the stored hash of principal p; no
\* password verifies against a missing hash.
PasswordVerifies(p, password) ==
    /\ users[p].hashed_password # NoPasswordHash
    /\ users[p].hashed_password = hash_password(password, users[p].hashed_password[2])

\* C24: disable_two_factor fails with NotEnabled when the flag is not set,
\* and otherwise with WrongPassword when the password does not verify against
\* the stored hash, leaving the table as it was; otherwise it clears the
\* flag of the caller and changes nothing else in the table.
C24_DisableTwoFactor ==
    [][ (OpStep("disable_2fa") /\ PassedGate) =>
          IF ~users[Caller].two_fa_enabled
          THEN /\ resp'.outcome = "NotEnabled" /\ users' = users
          ELSE IF ~PasswordVerifies(Caller, resp'.req.password)
          THEN /\ resp'.outcome = "WrongPassword" /\ users' = users
          ELSE /\ resp'.outcome = "disabled"
               /\ users' = [users EXCEPT ![Caller].two_fa_enabled = FALSE]
      ]_vars

\* C25: a failed notification rolls nothing back.  When the e-mail with
\* the code could not be sent (login or test-send) the challenge is pending
\* all the same, a verify_two_factor with the code of a pending challenge
\* succeeds, and the flag set by enable_two_factor or cleared by
\* disable_two_factor stays when their notification fails.
C25_NotifierFailureKeepsState ==
    [][ /\ (/\ (OpStep("login") \/ OpStep("test_2fa"))
            /\ resp'.mail.to # NULL /\ ~resp'.mail.delivered)
           => /\ challenges'[resp'.user_id].code = resp'.mail.code
              /\ Pending(challenges'[resp'.user_id], now)
        /\ (/\ OpStep("verify_2fa")
            /\ resp'.req.user_id \in DOMAIN users
            /\ Pending(challenges[resp'.req.user_id], now)
            /\ challenges[resp'.req.user_id].code = resp'.req.code)
           => (resp'.outcome = "tokens" /\ resp'.user_id = resp'.req.user_id)
        /\ (/\ (OpStep("enable_2fa") \/ OpStep("disable_2fa"))
            /\ resp'.mail.to # NULL /\ ~resp'.mail.delivered)
           => /\ resp'.status = 200
              /\ users'[resp'.user_id].two_fa_enabled = (resp'.op = "enable_2fa")
              /\ users[resp'.user_id].two_fa_enabled # (resp'.op = "enable_2fa")
      ]_vars

\* C25 witness: the test-send could not deliver its e-mail and answered 500,
\* and the challenge with the code of that e-mail is pending.
C25_Witness ==
    /\ resp.op = "test_2fa" /\ resp.outcome = "SendFailed" /\ ~resp.mail.delivered
    /\ challenges[resp.user_id].code = resp.mail.code
    /\ Pending(challenges[resp.user_id], now)

\* C30: every operation that issues tokens issues them for a principal
\* whose active flag is true at that moment.
C30_TokensOnlyForActive ==
    [][ (/\ (OpStep("login") \/ OpStep("verify_2fa") \/ OpStep("google_callback"))
         /\ resp'.outcome = "tokens")
        => users'[resp'.user_id].is_active
      ]_vars

(***************************************************************************)
(* SpecLogin: principals register with usernames that may look like an     *)
(* e-mail address (UserBase.username has no pattern) and log in.           *)
(***************************************************************************)
\* Registrations: the owner of alice@x.io takes the username "alice" or the
\* username "bob@x.io"; the owner of bob@x.io takes the username "bob".
LoginRegistrations ==
    {[username |-> u, email |-> EmailOf(1), password |-> PasswordOf(1), role |-> "user"] :
        u \in {UsernameOf(1), EmailOf(2)}}
    \cup {[username |-> UsernameOf(2), email |-> EmailOf(2), password |-> PasswordOf(2),
           role |-> "user"]}

LoginAttempts ==
    [username_or_email : {EmailOf(1), EmailOf(2), UsernameOf(2)},
     password : {PasswordOf(1), PasswordOf(2)}]

\* POST /login by one of the registered principals or by a stranger.
LoginAttempt(req) ==
    /\ LET r == login(users, challenges, req, DrawnCode, TRUE, now)
       IN  /\ users' = r.users
           /\ challenges' = r.challenges
           /\ resp' = r.resp
    /\ UNCHANGED <<now, requests, rl, next_id, calls>>

InitLogin ==
    /\ now = 100
    /\ requests = [k \in ClientKeys |-> <<>>]
    /\ rl = [r \in ReqIds |-> IdleReq]
    /\ users = <<>>
    /\ next_id = 1
    /\ challenges = NoChallenges
    /\ calls = NoCalls
    /\ resp = NoResponse

NextLogin ==
    \/ \E user_in \in LoginRegistrations : Register(user_in)
    \/ \E req \in LoginAttempts : LoginAttempt(req)

SpecLogin == InitLogin /\ [][NextLogin]_vars

\* The principal whose username is the identifier, or NoUser.
ByUsername(identifier) ==
    IF \E a \in DOMAIN users : users[a].username = identifier
    THEN CHOOSE a \in DOMAIN users : users[a].username = identifier
    ELSE NoUser

\* The principal whose e-mail address is the identifier, or NoUser.
ByEmail(identifier) ==
    IF \E b \in DOMAIN users : users[b].email = identifier
    THEN CHOOSE b \in DOMAIN users : users[b].email = identifier
    ELSE NoUser

\* C31: login checks the password against the principal whose username is
\* the identifier, and against the principal whose email is the identifier
\* only when no principal has it as username; a mismatch ends in
\* InvalidCredentials with the table unchanged, also when the password is
\* that of the principal whose email the identifier is.
C31_UsernameBeforeEmail ==
    [][ OpStep("login") =>
          LET identifier == resp'.req.username_or_email
              checked == IF ByUsername(identifier) # NoUser THEN ByUsername(identifier)
                         ELSE ByEmail(identifier)
          IN  IF checked # NoUser /\ PasswordVerifies(checked, resp'.req.password)
              THEN resp'.outcome = "tokens" /\ resp'.user_id = checked
              ELSE /\ resp'.outcome = "InvalidCredentials" /\ resp'.user_id = NoUser
                   /\ users' = users
      ]_vars

\* C31 witness: the identifier is the username of one principal and the
\* e-mail address of another, the password is that of the second, and the
\* login ended in InvalidCredentials.
C31_Witness ==
    /\ resp.op = "login" /\ resp.outcome = "InvalidCredentials"
    /\ \E a, b \in DOMAIN users :
         /\ a # b
         /\ users[a].username = resp.req.username_or_email
         /\ users[b].email = resp.req.username_or_email
         /\ PasswordVerifies(b, resp.req.password)
         /\ ~PasswordVerifies(a, resp.req.password)

(***************************************************************************)
(* SpecRoles: the operations that write the role column: registration,     *)
(* OAuth creation, update_user and update_user_role.                       *)
(***************************************************************************)
\* user_service.update_user_role: the role of the row is replaced, NotFound
\* when there is no such row.
service_update_user_role(table, user_id, new_role) ==
    service_update_user(table, user_id, [role |-> new_role])

\* PUT /update/{user_id}/role
update_user_role(table, token, user_id, new_role, current_time) ==
    LET cur == get_current_superadmin_user(token, table, current_time)
    IN  IF cur.outcome # "ok" THEN [table |-> table, result |-> cur]
        ELSE service_update_user_role(table, user_id, new_role)

UpdateUserRole(token, user_id, new_role) ==
    /\ LET r == update_user_role(users, token, user_id, new_role, now)
       IN  /\ users' = r.table
           /\ resp' = [op |-> "update_user_role", token |-> token, user_id |-> user_id,
                       result |-> r.result]
    /\ UNCHANGED <<now, requests, rl, next_id, challenges, calls>>

\* The body of POST /register: UserCreate has a role field the client may set.
RoleRegistrations ==
    [username : {UsernameOf(3)}, email : {EmailOf(3)}, password : {PasswordOf(3)},
     role : Roles]

\* What Google reports for a visitor without an account.
RoleInfos ==
    [oauth_provider : {"google"}, oauth_id : {"g-1"}, email : {EmailOf(3)},
     username : {UsernameOf(3)}, avatar_url : {"new.png"}, email_verified : {TRUE}]

\* A superadmin and a user exist.
InitRoles ==
    /\ now = 100
    /\ requests = [k \in ClientKeys |-> <<>>]
    /\ rl = [r \in ReqIds |-> IdleReq]
    /\ users = [i \in StoreIds |-> Registered(i, IF i = 1 THEN "superadmin" ELSE "user")]
    /\ next_id = 3
    /\ challenges = NoChallenges
    /\ calls = NoCalls
    /\ resp = NoResponse

NextRoles ==
    \/ \E user_in \in RoleRegistrations : Register(user_in)
    \/ \E info \in RoleInfos : GoogleCallback("ok", info, 1000)
    \/ \E token \in CallerTokens(now), user_id \in StoreIds, user_in \in UserUpdates :
         UpdateUser(token, user_id, user_in)
    \/ \E token \in CallerTokens(now), user_id \in StoreIds, new_role \in Roles :
         UpdateUserRole(token, user_id, new_role)

SpecRoles == InitRoles /\ [][NextRoles]_vars

\* The caller named by the token is an active superadmin of the table.
ActiveSuperadmin(token) ==
    /\ TokenVerifies(token, now)
    /\ SubjectOf(token) \in DOMAIN users
    /\ users[SubjectOf(token)].is_active
    /\ users[SubjectOf(token)].role = "superadmin"

\* C32: only a superadmin grants or changes a role.  A principal's role
\* changes only in an update_user or update_user_role called by an active
\* superadmin, a principal created by registration or by the OAuth callback
\* has the role USER, and update_user with a role field or update_user_role
\* by any other caller fails and changes nothing.
C32_OnlySuperadminGrantsRoles ==
    [][ /\ \A p \in DOMAIN users' :
             IF p \in DOMAIN users
             THEN users'[p].role # users[p].role
                  => /\ resp'.op \in {"update_user", "update_user_role"}
                     /\ ActiveSuperadmin(resp'.token)
             ELSE users'[p].role = "user"
        /\ \A token \in CallerTokens(now), user_id \in StoreIds, r \in Roles :
             ~ActiveSuperadmin(token)
             => /\ update_user(users, token, user_id, [role |-> r], now).table = users
                /\ update_user(users, token, user_id, [role |-> r], now).result.outcome # "ok"
                /\ update_user_role(users, token, user_id, r, now).table = users
                /\ update_user_role(users, token, user_id, r, now).result.outcome # "ok"
      ]_vars

=============================================================================
